---- MODULE Spec2Model ----
(***************************************************************************)
(* Field-extraction and record-reconciliation engine of the PDF emailer    *)
(* platform: the filename decomposer (parseFilename), CSV ingestion         *)
(* (parseCSV), the reconciler (performMatching), the bulk sender            *)
(* (sendAllEmails) and the pattern matcher (detectPatterns).                *)
(*                                                                         *)
(* A string is a sequence of one-character strings; offsets into a string  *)
(* are 0-based as in the source, so the character at offset p is s[p+1].   *)
(***************************************************************************)
EXTENDS Integers, Sequences, FiniteSets, TLC

VARIABLES
    \* ZipUploadComponent.parseFilename
    filename,        \* the argument of the call
    parsed,          \* the returned { accountNumber, customerName }, or None
    \* CsvUploadComponent.parseCSV and AccountMatchingComponent.performMatching
    csvRows,         \* results.data: the data rows handed over by the CSV codec
    customerData,    \* prop customerData (the parsedCustomers of parseCSV)
    parseErrors,     \* the per-row error list of parseCSV
    pdfFiles,        \* prop pdfFiles
    matches,         \* the list handed to onMatchingComplete, or None
    \* EmailSendingComponent.sendAllEmails
    matchedData,     \* prop matchedData
    configOk,        \* mailgunDomain and mailgunApiKey are both non-empty
    sendPc,          \* position of the sendAllEmails coroutine
    sendIdx,         \* loop variable i
    inFlight,        \* the delivery request awaiting its response, or None
    requests,        \* every delivery request issued so far, in order
    results,         \* local results array of the run
    emailResults,    \* state emailResults
    isSending,       \* state isSending
    completeCalls,   \* number of calls of onSendingComplete
    \* patternDetection.detectPatterns
    text,            \* argument text
    catalog,         \* argument rules: the indexes of Rules in the catalog
    lastIndex,       \* rule.regex.lastIndex of every rule object
    callNo,          \* which call of detectPatterns is running (1 or 2)
    detPc,           \* position inside detectPatterns
    ruleIdx,         \* index of the forEach over rules
    ruleMatches,     \* local matches array of the current rule
    execCount,       \* number of regex.exec calls made for the current rule
    detResults,      \* the results Map being built (sequence of entries)
    rawMatches,      \* history: per rule name, the matches array before removeDuplicates
    cursorAtCall,    \* history: cursorAtCall[k] is lastIndex when call k was made
    returned,        \* returned[k]: the Map returned by call k, or None
    \* patternDetection.generateRegexPattern
    examples,        \* the argument examples
    exampleType,     \* the argument type
    generated,       \* the returned pattern source, or None
    \* PatternDiscoveryTool: the Pattern Tester
    testText,        \* state testText
    patterns,        \* prop patterns: accountPatterns and namePatterns
    patternType,     \* state patternType
    testResults,     \* state testResults, or None before a test
    toast,           \* the title of the toast shown, "" if none
    \* Dashboard.EmailDistributionTool (with pdfFiles, customerData, matchedData)
    currentStep,     \* state currentStep
    emailTemplate,   \* state emailTemplate
    extracting,      \* an extractZipFiles call of ZipUploadComponent is pending
    parsing,         \* a parseCSV call of CsvUploadComponent is pending
    \* templateDefaults.ensureDefaultTemplate and TemplateManager
    stored,          \* localStorage item defaultEmailTemplate, or None
    shipped,         \* DEFAULT_EMAIL_TEMPLATE.version of the running build
    seenVersion,     \* history: the shipped version at the last application start
    starts           \* number of application starts so far

filenameVars == <<filename, parsed>>
matchVars    == <<csvRows, customerData, parseErrors, pdfFiles, matches>>
sendVars     == <<matchedData, configOk, sendPc, sendIdx, inFlight, requests,
                  results, emailResults, isSending, completeCalls>>
detectVars   == <<text, catalog, lastIndex, callNo, detPc, ruleIdx, ruleMatches,
                  execCount, detResults, rawMatches, cursorAtCall, returned>>
genVars      == <<examples, exampleType, generated>>
testerVars   == <<testText, patterns, patternType, testResults, toast>>
workflowVars == <<currentStep, emailTemplate, extracting, parsing>>
templateVars == <<stored, shipped, seenVersion, starts>>
toolVars     == <<genVars, testerVars, workflowVars, templateVars>>
vars == <<filenameVars, matchVars, sendVars, detectVars, toolVars>>

\* an absent value is the empty sequence, a present value x is <<x>>
None == <<>>
Some(x) == <<x>>

-----------------------------------------------------------------------------
(* Bounds of the model *)

MaxNameLen == 5
MaxRows == 2
MaxPdfs == 2
MaxSendFiles == 3
MaxTextLen == 4
MaxExamples == 2
MaxPatterns == 3

-----------------------------------------------------------------------------
(* Characters and strings *)

UpperSeq == <<"A","B","C","D","E","F","G","H","I","J","K","L","M",
              "N","O","P","Q","R","S","T","U","V","W","X","Y","Z">>
LowerSeq == <<"a","b","c","d","e","f","g","h","i","j","k","l","m",
              "n","o","p","q","r","s","t","u","v","w","x","y","z">>
Upper == {UpperSeq[i] : i \in DOMAIN UpperSeq}
Lower == {LowerSeq[i] : i \in DOMAIN LowerSeq}
Digit == {"0","1","2","3","4","5","6","7","8","9"}
WhiteSpace == {" ", "\t", "\n", "\r", "\f"}
WordChar == Upper \cup Lower \cup Digit \cup {"_"}

\* String.prototype.toLowerCase, one character
LowerChar(c) ==
    IF c \in Upper THEN LowerSeq[CHOOSE i \in DOMAIN UpperSeq : UpperSeq[i] = c] ELSE c

\* the other-case variant of a letter
UpperChar(c) ==
    IF c \in Lower THEN UpperSeq[CHOOSE i \in DOMAIN LowerSeq : LowerSeq[i] = c] ELSE c

toLowerCase(s) == [i \in DOMAIN s |-> LowerChar(s[i])]
toUpperCase(s) == [i \in DOMAIN s |-> UpperChar(s[i])]

\* s.substring(from, to) with 0-based offsets, from <= to
substring(s, from, to) == SubSeq(s, from + 1, to)

RECURSIVE trimStart(_)
trimStart(s) ==
    IF s # <<>> /\ Head(s) \in WhiteSpace THEN trimStart(Tail(s)) ELSE s

RECURSIVE trimEnd(_)
trimEnd(s) ==
    IF s # <<>> /\ s[Len(s)] \in WhiteSpace THEN trimEnd(SubSeq(s, 1, Len(s) - 1)) ELSE s

\* String.prototype.trim
trim(s) == trimEnd(trimStart(s))

\* is sub a substring of s at offset p
OccursAt(s, sub, p) ==
    /\ p + Len(sub) <= Len(s)
    /\ \A i \in 1..Len(sub) : s[p + i] = sub[i]

\* String.prototype.indexOf: the least offset of sub in s, or -1
indexOf(s, sub) ==
    IF \E p \in 0..Len(s) : OccursAt(s, sub, p)
    THEN CHOOSE p \in 0..Len(s) :
            /\ OccursAt(s, sub, p)
            /\ \A q \in 0..(p - 1) : ~OccursAt(s, sub, q)
    ELSE -1

includes(s, sub) == indexOf(s, sub) # -1

\* s.replace(sub, rep) with a string pattern: the first occurrence only
replaceString(s, sub, rep) ==
    LET p == indexOf(s, sub) IN
    IF p = -1 THEN s
    ELSE substring(s, 0, p) \o rep \o substring(s, p + Len(sub), Len(s))

\* s.split(sep) for a one-character separator
RECURSIVE split(_, _)
split(s, sep) ==
    LET p == indexOf(s, <<sep>>) IN
    IF p = -1 THEN <<s>>
    ELSE <<substring(s, 0, p)>> \o split(substring(s, p + 1, Len(s)), sep)

\* parts.join(sep)
RECURSIVE join(_, _)
join(parts, sep) ==
    IF parts = <<>> THEN <<>>
    ELSE IF Len(parts) = 1 THEN parts[1]
    ELSE parts[1] \o sep \o join(Tail(parts), sep)

\* all sequences over S of length at most n
RECURSIVE SeqsUpTo(_, _)
SeqsUpTo(S, n) ==
    IF n = 0 THEN {<<>>}
    ELSE LET shorter == SeqsUpTo(S, n - 1) IN
         shorter \cup {Append(q, x) : q \in {r \in shorter : Len(r) = n - 1}, x \in S}

-----------------------------------------------------------------------------
(* Regular expressions.  A pattern is a sequence of atoms:                 *)
(*   Cls(set, min, max)  a character class with a greedy quantifier        *)
(*   WordB               the assertion \b                                  *)
(*   Alt(alternatives)   a non-capturing group of alternatives             *)
(*   CapOpen, CapClose   the parentheses of capture group 1                *)
(* matched by backtracking in the order the ECMAScript matcher tries.      *)

Unbounded == 1000000

Cls(set, min, max) == [kind |-> "cls", set |-> set, min |-> min, max |-> max]
WordB == [kind |-> "wordb"]
Alt(alternatives) == [kind |-> "alt", alts |-> alternatives]
CapOpen == [kind |-> "open"]
CapClose == [kind |-> "close"]
Lit(c) == Cls({c}, 1, 1)

\* the flag i: every class also accepts the other-case variants
RECURSIVE IgnoreCase(_)
IgnoreCase(atoms) ==
    [i \in DOMAIN atoms |->
        IF atoms[i].kind = "cls"
        THEN [atoms[i] EXCEPT !.set = @ \cup {LowerChar(c) : c \in @}
                                         \cup {UpperChar(c) : c \in @}]
        ELSE IF atoms[i].kind = "alt"
        THEN [atoms[i] EXCEPT !.alts = [j \in DOMAIN @ |-> IgnoreCase(@[j])]]
        ELSE atoms[i]]

NoMatch == [end |-> -1, cs |-> -1, ce |-> -1]

\* number of consecutive characters of s from offset p that are in set, at most cap
RECURSIVE RunLen(_, _, _, _)
RunLen(set, s, p, cap) ==
    IF cap = 0 \/ p >= Len(s) THEN 0
    ELSE IF s[p + 1] \notin set THEN 0
    ELSE 1 + RunLen(set, s, p + 1, cap - 1)

IsWordAt(s, p) == p >= 0 /\ p < Len(s) /\ s[p + 1] \in WordChar

\* match atoms against s from offset p; toEnd is the anchor $
RECURSIVE MatchSeq(_, _, _, _, _, _), TryCount(_, _, _, _, _, _, _), TryAlts(_, _, _, _, _, _, _)
MatchSeq(atoms, s, p, toEnd, cs, ce) ==
    IF atoms = <<>>
    THEN IF toEnd /\ p # Len(s) THEN NoMatch ELSE [end |-> p, cs |-> cs, ce |-> ce]
    ELSE LET a == Head(atoms) IN
         CASE a.kind = "cls" ->
                TryCount(atoms, s, p, toEnd, cs, ce, RunLen(a.set, s, p, a.max))
           [] a.kind = "wordb" ->
                IF IsWordAt(s, p - 1) # IsWordAt(s, p)
                THEN MatchSeq(Tail(atoms), s, p, toEnd, cs, ce)
                ELSE NoMatch
           [] a.kind = "alt" ->
                TryAlts(atoms, s, p, toEnd, cs, ce, 1)
           [] a.kind = "open" -> MatchSeq(Tail(atoms), s, p, toEnd, p, ce)
           [] a.kind = "close" -> MatchSeq(Tail(atoms), s, p, toEnd, cs, p)

TryCount(atoms, s, p, toEnd, cs, ce, k) ==
    IF k < Head(atoms).min THEN NoMatch
    ELSE LET r == MatchSeq(Tail(atoms), s, p + k, toEnd, cs, ce) IN
         IF r.end # -1 THEN r ELSE TryCount(atoms, s, p, toEnd, cs, ce, k - 1)

TryAlts(atoms, s, p, toEnd, cs, ce, j) ==
    IF j > Len(Head(atoms).alts) THEN NoMatch
    ELSE LET r == MatchSeq(Head(atoms).alts[j] \o Tail(atoms), s, p, toEnd, cs, ce) IN
         IF r.end # -1 THEN r ELSE TryAlts(atoms, s, p, toEnd, cs, ce, j + 1)

\* /^atoms$/.test(s)
TestWhole(atoms, s) == MatchSeq(atoms, s, 0, TRUE, -1, -1).end # -1

\* the leftmost match of atoms in s at an offset >= from: [index, end, cs, ce], index -1 if none
RECURSIVE Search(_, _, _)
Search(atoms, s, from) ==
    IF from > Len(s) THEN [index |-> -1, end |-> -1, cs |-> -1, ce |-> -1]
    ELSE LET r == MatchSeq(atoms, s, from, FALSE, -1, -1) IN
         IF r.end # -1 THEN [index |-> from, end |-> r.end, cs |-> r.cs, ce |-> r.ce]
         ELSE Search(atoms, s, from + 1)

\* s.replace(/atoms/g, rep) for a pattern that matches no empty string
RECURSIVE replaceAll(_, _, _)
replaceAll(atoms, s, rep) ==
    LET m == Search(atoms, s, 0) IN
    IF m.index = -1 THEN s
    ELSE substring(s, 0, m.index) \o rep
            \o replaceAll(atoms, substring(s, m.end, Len(s)), rep)

-----------------------------------------------------------------------------
(* ZipUploadComponent.parseFilename *)

Unknown == <<"U","n","k","n","o","w","n">>
PdfLower == <<".","p","d","f">>
PdfUpper == <<".","P","D","F">>

DateSep == {"/", "-"}
\* /([A-Z]{2,6}[A-Z0-9]{2,8})/
AccountShape == <<Cls(Upper, 2, 6), Cls(Upper \cup Digit, 2, 8)>>
\* /[_\-\s]+/g
Separators == <<Cls({"_", "-"} \cup WhiteSpace, 1, Unbounded)>>
\* /\d{1,2}[\/\-]\d{1,2}[\/\-]\d{2,4}/g
DateMDY == <<Cls(Digit, 1, 2), Cls(DateSep, 1, 1), Cls(Digit, 1, 2), Cls(DateSep, 1, 1),
             Cls(Digit, 2, 4)>>
\* /\d{4}[\/\-]\d{1,2}[\/\-]\d{1,2}/g
DateYMD == <<Cls(Digit, 4, 4), Cls(DateSep, 1, 1), Cls(Digit, 1, 2), Cls(DateSep, 1, 1),
             Cls(Digit, 1, 2)>>
\* /\d{1,2}[\/\-]\d{1,2}/g
DatePartial == <<Cls(Digit, 1, 2), Cls(DateSep, 1, 1), Cls(Digit, 1, 2)>>
\* /^\d{1,2}[\/\-]\d{1,2}[\/\-]?\d{0,4}$/
BareDate == <<Cls(Digit, 1, 2), Cls(DateSep, 1, 1), Cls(Digit, 1, 2), Cls(DateSep, 0, 1),
              Cls(Digit, 0, 4)>>
\* /^[A-Za-z0-9]+$/
AlphaNumeric == <<Cls(Upper \cup Lower \cup Digit, 1, Unbounded)>>

\* x || 'Unknown'
OrUnknown(x) == IF x = <<>> THEN Unknown ELSE x

\* parts.filter((part, index) => index !== i && !BareDate.test(part)), from index j on
RECURSIVE nameParts(_, _, _)
nameParts(parts, i, j) ==
    IF j > Len(parts) THEN <<>>
    ELSE IF j # i /\ ~TestWhole(BareDate, parts[j])
         THEN <<parts[j]>> \o nameParts(parts, i, j + 1)
         ELSE nameParts(parts, i, j + 1)

\* Strategy 1: the account number pattern anywhere in the name
EmbeddedStrategy(nameWithoutExt, accountNumberMatch) ==
    LET accountNumber == substring(nameWithoutExt, accountNumberMatch.index,
                                   accountNumberMatch.end)
        remaining == trim(replaceString(nameWithoutExt, accountNumber, <<>>))
        cleaned == trim(replaceAll(DatePartial,
                          replaceAll(DateYMD,
                            replaceAll(DateMDY,
                              replaceAll(Separators, remaining, <<" ">>), <<>>), <<>>), <<>>))
    IN [accountNumber |-> accountNumber, customerName |-> OrUnknown(cleaned)]

\* mutant: the first underscore part is always taken as the account number
UnderscoreStrategy_FirstIsAccount(nameWithoutExt) ==
    LET parts == split(nameWithoutExt, "_") IN
    IF Len(parts) >= 2
    THEN [accountNumber |-> parts[1], customerName |-> parts[2]]
    ELSE [accountNumber |-> <<>>, customerName |-> <<>>]

\* Strategy 2: underscore separated
UnderscoreStrategy(nameWithoutExt) ==
    LET parts == split(nameWithoutExt, "_") IN
    IF Len(parts) >= 2
    THEN IF TestWhole(AccountShape, parts[1])
         THEN [accountNumber |-> parts[1], customerName |-> parts[2]]
         ELSE [accountNumber |-> parts[2], customerName |-> parts[1]]
    ELSE [accountNumber |-> <<>>, customerName |-> <<>>]

\* Strategies 3 and 4: space separated, dash separated
DelimiterStrategy(nameWithoutExt, sep) ==
    LET parts == split(nameWithoutExt, sep)
        hits == {i \in 1..Len(parts) : TestWhole(AccountShape, parts[i])}
    IN IF hits # {}
       THEN LET i == CHOOSE h \in hits : \A g \in hits : h <= g IN
            [accountNumber |-> parts[i],
             customerName |-> OrUnknown(trim(join(nameParts(parts, i, 1), <<" ">>)))]
       ELSE IF Len(parts) >= 2
       THEN [accountNumber |-> parts[1], customerName |-> parts[2]]
       ELSE [accountNumber |-> <<>>, customerName |-> <<>>]

\* Strategy 5: the whole name is the account number (both branches assign the same)
WholeNameStrategy(nameWithoutExt) ==
    IF Len(nameWithoutExt) >= 3 /\ Len(nameWithoutExt) <= 20
       /\ TestWhole(AlphaNumeric, nameWithoutExt)
    THEN [accountNumber |-> nameWithoutExt, customerName |-> Unknown]
    ELSE [accountNumber |-> nameWithoutExt, customerName |-> Unknown]

\* mutant: the final || 'Unknown' fallbacks are missing
FilenameResult_NoFallback(r) == r

\* const result = { accountNumber: accountNumber || 'Unknown', ... }
FilenameResult(r) ==
    [accountNumber |-> OrUnknown(r.accountNumber), customerName |-> OrUnknown(r.customerName)]

\* mutant: the delimiter strategies are tried before the embedded search
parseFilename_DelimitersFirst(name) ==
    LET nameWithoutExt == replaceString(replaceString(name, PdfLower, <<>>), PdfUpper, <<>>)
        accountNumberMatch == Search(AccountShape, nameWithoutExt, 0)
    IN FilenameResult(
        IF includes(nameWithoutExt, <<"_">>) THEN UnderscoreStrategy(nameWithoutExt)
        ELSE IF includes(nameWithoutExt, <<" ">>) THEN DelimiterStrategy(nameWithoutExt, " ")
        ELSE IF includes(nameWithoutExt, <<"-">>) THEN DelimiterStrategy(nameWithoutExt, "-")
        ELSE IF accountNumberMatch.index # -1
            THEN EmbeddedStrategy(nameWithoutExt, accountNumberMatch)
        ELSE WholeNameStrategy(nameWithoutExt))

parseFilename(name) ==
    LET nameWithoutExt == replaceString(replaceString(name, PdfLower, <<>>), PdfUpper, <<>>)
        accountNumberMatch == Search(AccountShape, nameWithoutExt, 0)
    IN FilenameResult(
        IF accountNumberMatch.index # -1
            THEN EmbeddedStrategy(nameWithoutExt, accountNumberMatch)
        ELSE IF includes(nameWithoutExt, <<"_">>) THEN UnderscoreStrategy(nameWithoutExt)
        ELSE IF includes(nameWithoutExt, <<" ">>) THEN DelimiterStrategy(nameWithoutExt, " ")
        ELSE IF includes(nameWithoutExt, <<"-">>) THEN DelimiterStrategy(nameWithoutExt, "-")
        ELSE WholeNameStrategy(nameWithoutExt))

\* the filenames the model feeds to parseFilename
NameAlphabet == {"A", "1", "a", "_", " ", "-"}
Extensions == {<<>>, PdfLower, PdfUpper}
ExtraFilenames ==
    { PdfLower \o PdfLower, <<"a">> \o PdfLower \o <<"b">>, <<".", "/", ".">>,
      <<"A", "B", "1", "2", "_", "1", "/", "2">> \o PdfLower,
      <<"A", "B", "1", "2", " ", "1", "-", "2", "-", "2", "3">>,
      <<"x", "A", "B", "1", "2", "_", "A", "n", "n">> \o PdfLower,
      <<"a", "-", "A", "B", "1", "2", " ", "C", "D", "3", "4", "5">>,
      <<"A", "B", "C", "D", "E", "F", "G", "H", "I", "J", "K", "L", "M", "N", "O", "P", "Q">> }

\* the filenames the splitter emits: {accountNumber}_{customerName}_{Month YYYY}.pdf
SplitterAccounts == { <<"F","B","N","W","S","T","X","1","2","3","4","5","6">>, <<"A","B","1","2">> }
SplitterNames == { <<"J","o","h","n"," ","S","m","i","t","h">>, <<"A","n","n">> }
SplitterMonthYears == { <<"M","a","y"," ","2","0","2","5">> }
SplitterFilename(accountNumber, customerName, monthYear) ==
    accountNumber \o <<"_">> \o customerName \o <<"_">> \o monthYear \o PdfLower
SplitterFilenames ==
    {SplitterFilename(a, n, m) : a \in SplitterAccounts, n \in SplitterNames,
                                 m \in SplitterMonthYears}

FilenameInputs ==
    {b \o e : b \in SeqsUpTo(NameAlphabet, MaxNameLen), e \in Extensions}
    \cup ExtraFilenames \cup SplitterFilenames

-----------------------------------------------------------------------------
(* Idle values of the parts of the state a specification does not use *)

FilenameIdle == filename = <<>> /\ parsed = None
MatchIdle == /\ csvRows = <<>> /\ customerData = <<>> /\ parseErrors = <<>>
             /\ pdfFiles = <<>> /\ matches = None
SendIdle == /\ matchedData = <<>> /\ configOk = FALSE /\ sendPc = "idle" /\ sendIdx = 0
            /\ inFlight = None /\ requests = <<>> /\ results = <<>>
            /\ emailResults = <<>> /\ isSending = FALSE /\ completeCalls = 0
DetectIdle == /\ text = <<>> /\ catalog = <<>> /\ lastIndex = <<>> /\ callNo = 0
              /\ detPc = "idle" /\ ruleIdx = 0 /\ ruleMatches = <<>> /\ execCount = 0
              /\ detResults = <<>> /\ rawMatches = <<>> /\ cursorAtCall = <<None, None>>
              /\ returned = <<None, None>>
GenIdle == examples = <<>> /\ exampleType = "" /\ generated = None
TesterIdle == /\ testText = <<>> /\ patterns = <<>> /\ patternType = ""
              /\ testResults = None /\ toast = ""
WorkflowIdle == /\ currentStep = "upload-zip" /\ emailTemplate = <<>>
                /\ extracting = FALSE /\ parsing = FALSE
TemplateIdle == stored = <<>> /\ shipped = "" /\ seenVersion = "" /\ starts = 0
ToolIdle == GenIdle /\ TesterIdle /\ WorkflowIdle /\ TemplateIdle

-----------------------------------------------------------------------------
(* Specification of the filename decomposer: one call of parseFilename *)

InitFilename ==
    /\ filename \in FilenameInputs
    /\ parsed = None
    /\ MatchIdle /\ SendIdle /\ DetectIdle /\ ToolIdle

ParseFilename ==
    /\ parsed = None
    /\ parsed' = Some(parseFilename(filename))
    /\ UNCHANGED <<filename, matchVars, sendVars, detectVars, toolVars>>

NextFilename == ParseFilename

SpecFilename == InitFilename /\ [][NextFilename]_vars

\* C1: parseFilename is total: whatever the filename (empty, only delimiters or
\* punctuation, with or without a .pdf extension) the result has a non-empty
\* accountNumber and a non-empty customerName.
C1_Total ==
    parsed # None => parsed[1].accountNumber # <<>> /\ parsed[1].customerName # <<>>

\* a call on a name without letters or digits has returned "Unknown" for both fields
C1_Witness ==
    /\ parsed # None
    /\ \A i \in DOMAIN filename : filename[i] \in {"_", " ", "-"}
    /\ filename # <<>>
    /\ parsed[1].accountNumber = Unknown
    /\ parsed[1].customerName = Unknown

\* C11: for a filename {accountNumber}_{customerName}_{Month YYYY}.pdf whose account
\* number has the account-number shape, parseFilename returns exactly that account
\* number and exactly that customer name, the month-year fragment stripped.
C11_SplitterNameRecovered ==
    \A a \in SplitterAccounts, n \in SplitterNames, m \in SplitterMonthYears :
        (parsed # None /\ filename = SplitterFilename(a, n, m)) =>
            /\ parsed[1].accountNumber = a
            /\ parsed[1].customerName = n

\* the filename with '.pdf' and '.PDF' removed, as parseFilename removes them
StrippedName == replaceString(replaceString(filename, PdfLower, <<>>), PdfUpper, <<>>)

\* the n characters of s from offset p are 2-6 uppercase letters followed by
\* 2-8 uppercase letters or digits
ShapeAt(s, p, n) ==
    /\ p >= 0 /\ p + n <= Len(s)
    /\ \E k \in 2..6 :
          /\ n - k >= 2 /\ n - k <= 8
          /\ \A i \in (p + 1)..(p + k) : s[i] \in Upper
          /\ \A i \in (p + k + 1)..(p + n) : s[i] \in Upper \cup Digit

ShapeStarts(s) == {p \in 0..Len(s) : \E n \in 4..14 : ShapeAt(s, p, n)}

\* the leftmost occurrence of the shape, taken as long as the shape allows
LeftmostShape(s) ==
    LET p == CHOOSE q \in ShapeStarts(s) : \A r \in ShapeStarts(s) : q <= r
        n == CHOOSE m \in 4..14 :
                 /\ ShapeAt(s, p, m)
                 /\ \A l \in 4..14 : ShapeAt(s, p, l) => l <= m
    IN SubSeq(s, p + 1, p + n)

\* C20: whenever the extension-stripped name contains, anywhere, 2-6 uppercase
\* letters followed by 2-8 uppercase letters or digits, the returned accountNumber
\* is the leftmost such embedded match, whatever delimiters the name contains.
C20_EmbeddedShapeFirst ==
    (parsed # None /\ ShapeStarts(StrippedName) # {}) =>
        parsed[1].accountNumber = LeftmostShape(StrippedName)

\* a call has returned the first of two embedded shapes of a name with delimiters,
\* where the first delimited part is not the account number
C20_Witness ==
    /\ parsed # None
    /\ Cardinality(ShapeStarts(StrippedName)) >= 2
    /\ \E i \in DOMAIN StrippedName : StrippedName[i] \in {"_", " ", "-"}
    /\ 0 \notin ShapeStarts(StrippedName)
    /\ parsed[1].accountNumber = LeftmostShape(StrippedName)

\* what is left of the name once the embedded account number is taken out
NameRest == replaceString(StrippedName, LeftmostShape(StrippedName), <<>>)

\* s is a date M/D/Y, Y/M/D or partial M/D, delimited by '/' or by '-'
IsDate(s) == TestWhole(DateMDY, s) \/ TestWhole(DateYMD, s) \/ TestWhole(DatePartial, s)

\* the positions of s that lie inside a date-like substring
DatePositions(s) ==
    {i \in DOMAIN s : \E p \in 1..i, q \in i..Len(s) : IsDate(SubSeq(s, p, q))}

\* C21: when parseFilename finds an embedded account number, every date-like
\* substring of the rest of the name is stripped: if all digits of the rest belong
\* to dates, the customerName holds no digit, and if the rest holds nothing but
\* dates and separators the customerName is "Unknown".
C21_DatesStripped ==
    (/\ parsed # None
     /\ ShapeStarts(StrippedName) # {}
     /\ \A i \in DOMAIN NameRest : NameRest[i] \in Digit => i \in DatePositions(NameRest))
    => /\ \A j \in DOMAIN parsed[1].customerName : parsed[1].customerName[j] \notin Digit
       /\ (\A i \in DOMAIN NameRest :
              i \in DatePositions(NameRest) \/ NameRest[i] \in {"_", "-", " "})
          => parsed[1].customerName = Unknown

\* segment k (counted from 0) of s cut at every sep, <<>> if there is none
Segment(s, sep, k) ==
    LET cuts == {i \in DOMAIN s : s[i] = sep}
        cut(n) == IF n = 0 THEN 0
                  ELSE IF n > Cardinality(cuts) THEN Len(s) + 1
                  ELSE CHOOSE i \in cuts : Cardinality({j \in cuts : j < i}) = n - 1
    IN IF k > Cardinality(cuts) THEN <<>>
       ELSE SubSeq(s, cut(k) + 1, cut(k + 1) - 1)

\* an empty field is reported as "Unknown"
Reported(field) == IF field = <<>> THEN Unknown ELSE field

\* C29: when the name contains no account-shaped substring, no segment of it passes
\* the strict account-shape test, so a name containing '_' gives accountNumber =
\* segment 1 and customerName = segment 0, and a name delimited by spaces, or else
\* by dashes, gives accountNumber = segment 0 and customerName = segment 1, each
\* replaced by "Unknown" if empty.
C29_SegmentTestNeverSucceeds ==
    parsed # None =>
        LET name == StrippedName
            has(sep) == \E i \in DOMAIN name : name[i] = sep
            count(sep) == Cardinality({i \in DOMAIN name : name[i] = sep})
            swapped == /\ parsed[1].accountNumber = Reported(Segment(name, "_", 1))
                       /\ parsed[1].customerName = Reported(Segment(name, "_", 0))
            straight(sep) ==
                       /\ parsed[1].accountNumber = Reported(Segment(name, sep, 0))
                       /\ parsed[1].customerName = Reported(Segment(name, sep, 1))
        IN ShapeStarts(name) = {} =>
           /\ \A sep \in {"_", " ", "-"} : \A k \in 0..count(sep) :
                 LET part == Segment(name, sep, k) IN ~ShapeAt(part, 0, Len(part))
           /\ has("_") => swapped
           /\ (~has("_") /\ has(" ")) => straight(" ")
           /\ (~has("_") /\ ~has(" ") /\ has("-")) => straight("-")

\* a call on a name of two non-empty underscore segments, the first of which is
\* made of upper-case letters and digits, has returned them swapped
C29_Witness ==
    /\ parsed # None
    /\ ShapeStarts(StrippedName) = {}
    /\ Segment(StrippedName, "_", 0) = <<"A", "1">>
    /\ Segment(StrippedName, "_", 1) = <<"a">>
    /\ parsed[1].accountNumber = <<"a">>
    /\ parsed[1].customerName = <<"A", "1">>

-----------------------------------------------------------------------------
(* CsvUploadComponent.parseCSV *)

Punctuation == {"@", ".", "-", "_", "/", "&", "#", ":", ",", "$", "'", "(", ")", "+", "%"}
AllChars == Upper \cup Lower \cup Digit \cup WhiteSpace \cup Punctuation

\* /^[^\s@]+@[^\s@]+\.[^\s@]+$/
emailRegex ==
    LET plain == AllChars \ (WhiteSpace \cup {"@"}) IN
    <<Cls(plain, 1, Unbounded), Lit("@"), Cls(plain, 1, Unbounded), Lit("."),
      Cls(plain, 1, Unbounded)>>

validateEmail(email) == TestWhole(emailRegex, email)

\* the column names the row extraction tries, in the order of the || chains
AccountColumns ==
    <<<<"a","c","c","o","u","n","t","N","u","m","b","e","r">>,
      <<"a","c","c","o","u","n","t","_","n","u","m","b","e","r">>,
      <<"A","c","c","o","u","n","t"," ","N","u","m","b","e","r">>,
      <<"a","c","c","o","u","n","t"," ","n","u","m","b","e","r">>,
      <<"A","c","c","o","u","n","t","N","u","m","b","e","r">>,
      <<"A","C","C","O","U","N","T","_","N","U","M","B","E","R">>>>
EmailColumns ==
    <<<<"e","m","a","i","l">>,
      <<"E","m","a","i","l">>,
      <<"e","m","a","i","l","_","a","d","d","r","e","s","s">>,
      <<"E","m","a","i","l"," ","A","d","d","r","e","s","s">>,
      <<"e","m","a","i","l"," ","a","d","d","r","e","s","s">>,
      <<"E","M","A","I","L">>>>
NameColumns ==
    <<<<"c","u","s","t","o","m","e","r","N","a","m","e">>,
      <<"c","u","s","t","o","m","e","r","_","n","a","m","e">>,
      <<"C","u","s","t","o","m","e","r"," ","N","a","m","e">>,
      <<"c","u","s","t","o","m","e","r"," ","n","a","m","e">>,
      <<"n","a","m","e">>,
      <<"N","a","m","e">>,
      <<"N","A","M","E">>,
      <<"C","u","s","t","o","m","e","r","N","a","m","e">>,
      <<"C","U","S","T","O","M","E","R","_","N","A","M","E">>>>

\* row[col], undefined (falsy, like '') when the row has no such column
Cell(row, col) == IF col \in DOMAIN row THEN row[col] ELSE <<>>

\* row[c1] || row[c2] || ... || ''
RECURSIVE FirstTruthy(_, _)
FirstTruthy(row, columns) ==
    IF columns = <<>> THEN <<>>
    ELSE IF Cell(row, Head(columns)) # <<>> THEN Cell(row, Head(columns))
    ELSE FirstTruthy(row, Tail(columns))

\* col.toLowerCase().replace(/\s/g, '')
Squeezed(col) == SelectSeq(toLowerCase(col), LAMBDA c : c \notin WhiteSpace)

hasAccountNumber(availableColumns) ==
    \/ \E col \in availableColumns :
          /\ includes(toLowerCase(col), <<"a","c","c","o","u","n","t">>)
          /\ includes(toLowerCase(col), <<"n","u","m","b","e","r">>)
    \/ \E col \in availableColumns :
          Squeezed(col) \in {<<"a","c","c","o","u","n","t","n","u","m","b","e","r">>,
                             <<"a","c","c","o","u","n","t","_","n","u","m","b","e","r">>,
                             <<"a","c","c","o","u","n","t","n","o">>}

hasEmail(availableColumns) ==
    \E col \in availableColumns :
        \/ includes(toLowerCase(col), <<"e","m","a","i","l">>)
        \/ includes(toLowerCase(col), <<"m","a","i","l">>)

hasCustomerName(availableColumns) ==
    \E col \in availableColumns :
        \/ /\ includes(toLowerCase(col), <<"c","u","s","t","o","m","e","r">>)
           /\ includes(toLowerCase(col), <<"n","a","m","e">>)
        \/ includes(toLowerCase(col), <<"n","a","m","e">>)

\* mutant: the two email checks of the row are missing
ParseRow_NoEmailCheck(row, index) ==
    LET accountNumber == FirstTruthy(row, AccountColumns)
        email == FirstTruthy(row, EmailColumns)
        customerName == FirstTruthy(row, NameColumns)
    IN IF trim(accountNumber) = <<>>
         THEN [ok |-> FALSE, row |-> index + 2, error |-> "Missing account number"]
       ELSE IF trim(customerName) = <<>>
         THEN [ok |-> FALSE, row |-> index + 2, error |-> "Missing customer name"]
       ELSE [ok |-> TRUE,
             customer |-> [accountNumber |-> trim(accountNumber),
                           email |-> toLowerCase(trim(email)),
                           customerName |-> trim(customerName)]]

\* the body of data.forEach((row, index) => ...): the record pushed to
\* parsedCustomers, or the message pushed to parseErrors
ParseRow(row, index) ==
    LET accountNumber == FirstTruthy(row, AccountColumns)
        email == FirstTruthy(row, EmailColumns)
        customerName == FirstTruthy(row, NameColumns)
    IN IF trim(accountNumber) = <<>>
         THEN [ok |-> FALSE, row |-> index + 2, error |-> "Missing account number"]
       ELSE IF trim(email) = <<>>
         THEN [ok |-> FALSE, row |-> index + 2, error |-> "Missing email address"]
       ELSE IF ~validateEmail(trim(email))
         THEN [ok |-> FALSE, row |-> index + 2, error |-> "Invalid email format"]
       ELSE IF trim(customerName) = <<>>
         THEN [ok |-> FALSE, row |-> index + 2, error |-> "Missing customer name"]
       ELSE [ok |-> TRUE,
             customer |-> [accountNumber |-> trim(accountNumber),
                           email |-> toLowerCase(trim(email)),
                           customerName |-> trim(customerName)]]

\* mutant: the first rejected row ends the processing of the rows
parseCSV_StopAtFirstError(data) ==
    IF data = <<>>
    THEN [parsedCustomers |-> <<>>,
          parseErrors |-> <<[row |-> 0, error |-> "CSV file appears to be empty or invalid"]>>]
    ELSE LET availableColumns == DOMAIN data[1] IN
    IF ~hasAccountNumber(availableColumns) \/ ~hasEmail(availableColumns)
          \/ ~hasCustomerName(availableColumns)
    THEN [parsedCustomers |-> <<>>,
          parseErrors |-> <<[row |-> 0, error |-> "CSV must contain columns"],
                            [row |-> 0, error |-> "Available columns"],
                            [row |-> 0, error |-> "Try renaming your columns"]>>]
    ELSE LET rowResult == [i \in DOMAIN data |-> ParseRow(data[i], i - 1)]
             reached == {i \in DOMAIN data : \A j \in 1..(i - 1) : rowResult[j].ok}
             processed == [i \in 1..Cardinality(reached) |-> rowResult[i]]
             accepted == SelectSeq(processed, LAMBDA r : r.ok)
             rejected == SelectSeq(processed, LAMBDA r : ~r.ok)
         IN [parsedCustomers |-> [i \in DOMAIN accepted |-> accepted[i].customer],
             parseErrors |-> [i \in DOMAIN rejected |->
                                [row |-> rejected[i].row, error |-> rejected[i].error]]]

\* the complete callback of Papa.parse: [parsedCustomers, parseErrors]
parseCSV(data) ==
    IF data = <<>>
    THEN [parsedCustomers |-> <<>>,
          parseErrors |-> <<[row |-> 0, error |-> "CSV file appears to be empty or invalid"]>>]
    ELSE LET availableColumns == DOMAIN data[1] IN
    IF ~hasAccountNumber(availableColumns) \/ ~hasEmail(availableColumns)
          \/ ~hasCustomerName(availableColumns)
    THEN [parsedCustomers |-> <<>>,
          parseErrors |-> <<[row |-> 0, error |-> "CSV must contain columns"],
                            [row |-> 0, error |-> "Available columns"],
                            [row |-> 0, error |-> "Try renaming your columns"]>>]
    ELSE LET rowResult == [i \in DOMAIN data |-> ParseRow(data[i], i - 1)]
             accepted == SelectSeq(rowResult, LAMBDA r : r.ok)
             rejected == SelectSeq(rowResult, LAMBDA r : ~r.ok)
         IN [parsedCustomers |-> [i \in DOMAIN accepted |-> accepted[i].customer],
             parseErrors |-> [i \in DOMAIN rejected |->
                                [row |-> rejected[i].row, error |-> rejected[i].error]]]

-----------------------------------------------------------------------------
(* AccountMatchingComponent.performMatching *)

\* mutant: the key is lower-cased but not trimmed
normalize_NoTrim(accountNumber) == toLowerCase(accountNumber)

\* customer.accountNumber.toLowerCase().trim()
normalize(accountNumber) == trim(toLowerCase(accountNumber))

\* mutant: a key that is already in the map keeps its first customer
RECURSIVE customerMapOf_FirstWins(_)
customerMapOf_FirstWins(customers) ==
    IF customers = <<>> THEN <<>>
    ELSE LET rest == customerMapOf_FirstWins(SubSeq(customers, 1, Len(customers) - 1))
             last == customers[Len(customers)]
             key == toLowerCase(trim(last.accountNumber))
         IN [k \in DOMAIN rest \cup {key} |-> IF k \in DOMAIN rest THEN rest[k] ELSE last]

\* the customerMap after customerData.forEach(customer => customerMap.set(key, customer)):
\* a function from the normalized keys to customer records, later records overwriting
RECURSIVE customerMapOf(_)
customerMapOf(customers) ==
    IF customers = <<>> THEN <<>>
    ELSE LET rest == customerMapOf(SubSeq(customers, 1, Len(customers) - 1))
             last == customers[Len(customers)]
             key == normalize(last.accountNumber)
         IN [k \in DOMAIN rest \cup {key} |-> IF k = key THEN last ELSE rest[k]]

\* customerMap.get(key): Some(customer), or None for undefined
mapGet(customerMap, key) ==
    IF key \in DOMAIN customerMap THEN Some(customerMap[key]) ELSE None

\* mutant: every record is flagged matched
matchOf_AlwaysMatched(pdf, customerMap) ==
    LET customer == mapGet(customerMap, normalize(pdf.accountNumber)) IN
    [pdf |-> pdf,
     customer |-> IF customer # None THEN customer[1]
                  ELSE [accountNumber |-> pdf.accountNumber, email |-> <<>>,
                        customerName |-> pdf.customerName],
     matched |-> TRUE]

\* the record pushed to matches for one pdf
matchOf(pdf, customerMap) ==
    LET customer == mapGet(customerMap, normalize(pdf.accountNumber)) IN
    [pdf |-> pdf,
     customer |-> IF customer # None THEN customer[1]
                  ELSE [accountNumber |-> pdf.accountNumber, email |-> <<>>,
                        customerName |-> pdf.customerName],
     matched |-> customer # None]

\* mutant: only the segments with a customer are pushed
performMatching_DropUnmatched(pdfs, customers) ==
    LET customerMap == customerMapOf(customers) IN
    SelectSeq([i \in DOMAIN pdfs |-> matchOf(pdfs[i], customerMap)], LAMBDA m : m.matched)

performMatching(pdfs, customers) ==
    LET customerMap == customerMapOf(customers) IN
    [i \in DOMAIN pdfs |-> matchOf(pdfs[i], customerMap)]

-----------------------------------------------------------------------------
(* Specification of ingestion and reconciliation: a CSV file is parsed into *)
(* customerData, then performMatching joins pdfFiles with customerData      *)

\* the header rows of the model's CSV files: three column names each
HeaderTitle == <<<<"A","c","c","o","u","n","t"," ","N","u","m","b","e","r">>, <<"E","m","a","i","l">>, <<"C","u","s","t","o","m","e","r"," ","N","a","m","e">>>>
HeaderCamel == <<<<"a","c","c","o","u","n","t","N","u","m","b","e","r">>, <<"e","m","a","i","l">>, <<"c","u","s","t","o","m","e","r","N","a","m","e">>>>
HeaderLoose == <<<<"A","c","c","o","u","n","t"," ","N","o">>, <<"E","-","m","a","i","l">>, <<"N","a","m","e">>>>
HeaderNoName == <<<<"A","c","c","o","u","n","t"," ","N","u","m","b","e","r">>, <<"E","m","a","i","l">>, <<"P","h","o","n","e">>>>

\* the data rows of the model's CSV files: account number, email, customer name
CsvValues ==
    { <<<<"A","1">>, <<"x","@","y",".","z">>, <<"N">>>>,
      <<<<"a","1"," ">>, <<" ","U","@","V",".","W">>, <<"N">>>>,
      <<<<"B","2">>, <<"b","@","c",".","d">>, <<"M">>>>,
      <<<<>>, <<"x","@","y",".","z">>, <<"N">>>>,
      <<<<"A","1">>, <<>>, <<"N">>>>,
      <<<<"A","1">>, <<"x","y">>, <<"N">>>>,
      <<<<"A","1">>, <<"x","@","y",".","z">>, <<" ">>>> }

\* the row mapping Papa.parse builds from a header and the cells of one line
RowOf(header, cells) == [col \in {header[k] : k \in 1..3} |->
                            cells[CHOOSE k \in 1..3 : header[k] = col]]

CsvOf(header, lines) == [i \in DOMAIN lines |-> RowOf(header, lines[i])]

CsvInputs ==
    {CsvOf(HeaderTitle, lines) : lines \in SeqsUpTo(CsvValues, MaxRows)}
    \cup {CsvOf(h, <<<<<<"A","1">>, <<"x","@","y",".","z">>, <<"N">>>>,
                      <<<<"B","2">>, <<>>, <<"M">>>>>>) :
             h \in {HeaderCamel, HeaderLoose, HeaderNoName}}

\* the extracted PDF files: name, and the accountNumber and customerName parsed from it
PdfInputs ==
    { [name |-> "f1", accountNumber |-> <<"A","1">>, customerName |-> <<"A","n","n">>],
      [name |-> "f2", accountNumber |-> <<"a","1"," ">>, customerName |-> <<"A","n","n">>],
      [name |-> "f3", accountNumber |-> <<"B","2">>, customerName |-> <<"B","o">>],
      [name |-> "f4", accountNumber |-> <<"C","3">>, customerName |-> <<"C","y">>],
      [name |-> "f5", accountNumber |-> <<"A"," ","1">>, customerName |-> Unknown] }

InitMatch ==
    /\ csvRows \in CsvInputs
    /\ pdfFiles \in SeqsUpTo(PdfInputs, MaxPdfs)
    /\ customerData = <<>>
    /\ parseErrors = <<>>
    /\ matches = None
    /\ FilenameIdle /\ SendIdle /\ DetectIdle /\ ToolIdle

\* CsvUploadComponent.parseCSV, with the onDataParsed callback of the workflow
ParseCSV ==
    /\ matches = None
    /\ LET r == parseCSV(csvRows) IN
         /\ parseErrors' = r.parseErrors
         /\ customerData' = IF r.parsedCustomers # <<>> THEN r.parsedCustomers
                            ELSE customerData
    /\ UNCHANGED <<csvRows, pdfFiles, matches, filenameVars, sendVars, detectVars, toolVars>>

\* AccountMatchingComponent.performMatching, with onMatchingComplete(matches)
PerformMatching ==
    /\ matches' = Some(performMatching(pdfFiles, customerData))
    /\ UNCHANGED <<csvRows, customerData, parseErrors, pdfFiles,
                   filenameVars, sendVars, detectVars, toolVars>>

NextMatch == ParseCSV \/ PerformMatching

SpecMatch == InitMatch /\ [][NextMatch]_vars

\* what the claims call the normalized key of an account number, stated without
\* the code's operators: the account number without the white space around it,
\* letters in lower case
StrippedOf(s) ==
    LET inner == {i \in DOMAIN s : s[i] \notin WhiteSpace} IN
    IF inner = {} THEN <<>>
    ELSE LET lo == CHOOSE i \in inner : \A j \in inner : i <= j
             hi == CHOOSE i \in inner : \A j \in inner : i >= j
         IN [k \in 1..(hi - lo + 1) |-> s[lo + k - 1]]

KeyOf(s) == LET t == StrippedOf(s) IN [k \in DOMAIN t |-> LowerChar(t[k])]

CustomerKeys == {KeyOf(customerData[j].accountNumber) : j \in DOMAIN customerData}

MatchedIndexes == {i \in DOMAIN matches[1] : matches[1][i].matched}

\* C3: reconciliation never drops or reorders a segment: the output has one
\* record per input segment and the i-th record carries the i-th segment,
\* matched or not.
C3_NoSegmentDropped ==
    matches # None =>
        /\ Len(matches[1]) = Len(pdfFiles)
        /\ \A i \in DOMAIN pdfFiles : matches[1][i].pdf = pdfFiles[i]

\* a reconciliation of two different segments, the first unmatched, the second matched
C3_Witness ==
    /\ matches # None
    /\ Len(pdfFiles) = 2
    /\ pdfFiles[1] # pdfFiles[2]
    /\ ~matches[1][1].matched
    /\ matches[1][2].matched

\* C4: a segment's record is matched exactly when some customer record has the
\* same account number up to letter case and surrounding white space.
C4_NormalizedJoin ==
    matches # None =>
        \A i \in DOMAIN matches[1] :
            matches[1][i].matched <=> KeyOf(pdfFiles[i].accountNumber) \in CustomerKeys

\* a segment matched to a customer whose account number is written differently
C4_Witness ==
    /\ matches # None
    /\ \E i \in DOMAIN matches[1] :
          /\ matches[1][i].matched
          /\ matches[1][i].customer.accountNumber # pdfFiles[i].accountNumber
          /\ Len(pdfFiles[i].accountNumber) # Len(matches[1][i].customer.accountNumber)

\* C5: with a customer list produced by parseCSV, a record is matched exactly
\* when its customer has a non-empty email and is a record of the customer list;
\* the placeholder of an unmatched segment has email "" and is never matched.
C5_MatchedIffJoinHit ==
    matches # None =>
        \A i \in DOMAIN matches[1] :
            LET m == matches[1][i] IN
            /\ m.matched <=>
                  (m.customer.email # <<>>
                   /\ \E j \in DOMAIN customerData : customerData[j] = m.customer)
            /\ ~m.matched => m.customer.email = <<>>

\* a reconciliation against parsed customers with a matched and an unmatched record,
\* after a CSV row with a missing or malformed email was rejected
C5_Witness ==
    /\ matches # None
    /\ customerData # <<>>
    /\ parseErrors # <<>>
    /\ \E i \in DOMAIN matches[1] : matches[1][i].matched
    /\ \E i \in DOMAIN matches[1] : ~matches[1][i].matched

\* C6 as stated: the number of matched records never exceeds the number of
\* distinct normalized account-number keys of the customer list.
C6_MatchedCountAtMostKeys ==
    matches # None => Cardinality(MatchedIndexes) <= Cardinality(CustomerKeys)

\* C6 as amended: the matched records carry at most as many distinct normalized
\* account-number keys as the customer list has (segments that share a key all
\* match the same customer, so the matched records themselves can be more).
C6_MatchedKeysAtMostKeys ==
    matches # None =>
        Cardinality({KeyOf(pdfFiles[i].accountNumber) : i \in MatchedIndexes})
            <= Cardinality(CustomerKeys)

\* two segments with the same key matched against a customer list with one key
C6_Witness ==
    /\ matches # None
    /\ Cardinality(MatchedIndexes) = 2
    /\ Cardinality(CustomerKeys) = 1

-----------------------------------------------------------------------------
(* EmailSendingComponent.sendAllEmails.  The coroutine runs from one await  *)
(* to the next in one step: sendPc is "idle" before the call, "awaitFetch"  *)
(* while the fetch of sendSingleEmail is pending, "awaitJson" while          *)
(* response.json() of a failed response is pending, "delay" during the      *)
(* one-second pause, "done" after the run has completed and "refused"       *)
(* after a call that returned at the configuration guard.                   *)

\* mutant: the matched filter is missing
matchedFiles_NoFilter == matchedData

\* const matchedFiles = matchedData.filter(m => m.matched)
matchedFiles == SelectSeq(matchedData, LAMBDA m : m.matched)

\* the POST of sendSingleEmail for one record
RequestOf(matchData) == [to |-> matchData.customer.email, data |-> matchData]

\* mutant: the loop does not wait for a delivery before it issues the next one
LoopFrom_NoAwait(i, res) ==
    IF i < Len(matchedFiles)
    THEN /\ sendIdx' = IF i + 1 < Len(matchedFiles) THEN i + 1 ELSE i
         /\ inFlight' = Some(RequestOf(matchedFiles[i + 1]))
         /\ requests' = IF i + 1 < Len(matchedFiles)
                         THEN requests \o <<RequestOf(matchedFiles[i + 1]),
                                            RequestOf(matchedFiles[i + 2])>>
                         ELSE Append(requests, RequestOf(matchedFiles[i + 1]))
         /\ sendPc' = "awaitFetch"
         /\ UNCHANGED <<emailResults, completeCalls>>
         /\ isSending' = TRUE
    ELSE /\ sendIdx' = i
         /\ emailResults' = res
         /\ isSending' = FALSE
         /\ completeCalls' = completeCalls + 1
         /\ sendPc' = "done"
         /\ UNCHANGED <<inFlight, requests>>

\* the loop of sendAllEmails from its test i < matchedFiles.length up to the next
\* await: either the next delivery request is issued, or the run completes
LoopFrom(i, res) ==
    IF i < Len(matchedFiles)
    THEN /\ sendIdx' = i
         /\ inFlight' = Some(RequestOf(matchedFiles[i + 1]))
         /\ requests' = Append(requests, RequestOf(matchedFiles[i + 1]))
         /\ sendPc' = "awaitFetch"
         /\ UNCHANGED <<emailResults, completeCalls>>
         /\ isSending' = TRUE
    ELSE /\ sendIdx' = i
         /\ emailResults' = res
         /\ isSending' = FALSE
         /\ completeCalls' = completeCalls + 1
         /\ sendPc' = "done"
         /\ UNCHANGED <<inFlight, requests>>

\* sendAllEmails is called: without a configuration it only shows a toast
SendAllEmails ==
    /\ sendPc = "idle"
    /\ IF ~configOk
       THEN /\ sendPc' = "refused"
            /\ UNCHANGED <<sendIdx, inFlight, requests, results, emailResults,
                           isSending, completeCalls>>
       ELSE /\ results' = <<>>
            /\ LoopFrom(0, <<>>)
    /\ UNCHANGED <<matchedData, configOk, filenameVars, matchVars, detectVars, toolVars>>

\* mutant: a failed delivery ends the run without a result
PushResult_AbortOnFailure(success) ==
    IF success
    THEN /\ results' = Append(results, [customer |-> inFlight[1].data.customer,
                                        success |-> success])
         /\ inFlight' = None
         /\ sendPc' = "delay"
    ELSE /\ results' = results
         /\ inFlight' = None
         /\ sendPc' = "aborted"

\* the result of sendSingleEmail is pushed and the pause begins
PushResult(success) ==
    /\ results' = Append(results, [customer |-> inFlight[1].data.customer,
                                   success |-> success])
    /\ inFlight' = None
    /\ sendPc' = "delay"

\* the fetch settles: fulfilled with response.ok, fulfilled with an error status
\* (response.json() is awaited next), or rejected
FetchSettles ==
    /\ sendPc = "awaitFetch"
    /\ \E outcome \in {"ok", "status", "rejected"} :
          CASE outcome = "ok" -> PushResult(TRUE)
            [] outcome = "rejected" -> PushResult(FALSE)
            [] outcome = "status" ->
                  /\ sendPc' = "awaitJson"
                  /\ UNCHANGED <<results, inFlight>>
    /\ UNCHANGED <<matchedData, configOk, sendIdx, requests, emailResults, isSending,
                   completeCalls, filenameVars, matchVars, detectVars, toolVars>>

\* response.json() settles; either way sendSingleEmail throws and catches
JsonSettles ==
    /\ sendPc = "awaitJson"
    /\ PushResult(FALSE)
    /\ UNCHANGED <<matchedData, configOk, sendIdx, requests, emailResults, isSending,
                   completeCalls, filenameVars, matchVars, detectVars, toolVars>>

\* the one-second pause ends: i++ and the loop goes on
DelayElapses ==
    /\ sendPc = "delay"
    /\ LoopFrom(sendIdx + 1, results)
    /\ UNCHANGED <<matchedData, configOk, results, filenameVars, matchVars, detectVars, toolVars>>

\* the customers and segments whose reconciliation the sending component is given
SendCustomers ==
    << [accountNumber |-> <<"A","1">>, email |-> <<"x","@","y",".","z">>, customerName |-> <<"N">>],
       [accountNumber |-> <<"B","2">>, email |-> <<"b","@","c",".","d">>, customerName |-> <<"M">>] >>
SendPdfInputs == {f \in PdfInputs : f.name \in {"f1", "f3", "f4"}}

InitSend ==
    /\ \E pdfs \in SeqsUpTo(SendPdfInputs, MaxSendFiles) :
          matchedData = performMatching(pdfs, SendCustomers)
    /\ configOk \in BOOLEAN
    /\ sendPc = "idle" /\ sendIdx = 0 /\ inFlight = None /\ requests = <<>>
    /\ results = <<>> /\ emailResults = <<>> /\ isSending = FALSE /\ completeCalls = 0
    /\ FilenameIdle /\ MatchIdle /\ DetectIdle /\ ToolIdle

NextSend == SendAllEmails \/ FetchSettles \/ JsonSettles \/ DelayElapses

SpecSend == InitSend /\ [][NextSend]_vars

\* C2: a delivery request is issued only for records of matchedData whose matched
\* flag is true, never for an unmatched record.
C2_OnlyMatchedSent ==
    \A k \in DOMAIN requests :
        /\ requests[k].data.matched
        /\ \E i \in DOMAIN matchedData : matchedData[i] = requests[k].data

\* a finished run over a list with unmatched records, in which every matched
\* record and nothing else was sent
C2_Witness ==
    /\ sendPc = "done"
    /\ \E i \in DOMAIN matchedData : ~matchedData[i].matched
    /\ requests # <<>>
    /\ Len(requests) = Cardinality({i \in DOMAIN matchedData : matchedData[i].matched})

\* the matched records, in the order of matchedData
MatchedRecords ==
    LET idx == {i \in DOMAIN matchedData : matchedData[i].matched} IN
    [k \in 1..Cardinality(idx) |->
        matchedData[CHOOSE i \in idx : Cardinality({j \in idx : j < i}) = k - 1]]

\* the delivery attempts that have been started and have not completed
AttemptsInFlight == Len(requests) - Len(results)

\* C25: within one run of sendAllEmails the delivery attempts are issued in the
\* order of the matched records, attempt k+1 is not started before attempt k has
\* completed (at most one request is in flight), and when the run is over each
\* matched record has been attempted exactly once.
C25_SequentialInOrder ==
    /\ Len(requests) <= Len(MatchedRecords)
    /\ \A k \in DOMAIN requests : requests[k].data = MatchedRecords[k]
    /\ AttemptsInFlight \in {0, 1}
    /\ AttemptsInFlight = 1 <=> inFlight # None
    /\ \A k \in DOMAIN results : results[k].customer = MatchedRecords[k].customer
    /\ sendPc = "done" => Len(requests) = Len(MatchedRecords)

\* the third attempt of a run is in flight and the first two have completed
C25_Witness ==
    /\ sendPc = "awaitFetch"
    /\ Len(requests) = 3
    /\ Len(results) = 2
    /\ requests[3].data = MatchedRecords[3]
    /\ requests[1] # requests[2]

\* Every delivery request eventually succeeds or fails: the fetch settles, the body
\* of an error response settles, and the timer of the pause fires.
SpecSendFair ==
    SpecSend /\ WF_vars(FetchSettles) /\ WF_vars(JsonSettles) /\ WF_vars(DelayElapses)

\* a completed bulk send: the flag is down, the completion callback was called once,
\* and there is one result per matched record, a failure being a result as well
SendCompleted ==
    /\ sendPc = "done"
    /\ ~isSending
    /\ completeCalls = 1
    /\ Len(emailResults) = Len(MatchedRecords)
    /\ \A k \in DOMAIN emailResults : emailResults[k].customer = MatchedRecords[k].customer

\* C26: provided every delivery request eventually succeeds or fails, a started bulk
\* send eventually completes: a failed delivery is one failure result, the remaining
\* deliveries are still attempted, and at the end isSending is false,
\* onSendingComplete has been called exactly once and there is one result per
\* matched record.
C26_BulkSendCompletes == isSending ~> SendCompleted

\* a bulk send has completed with a failed delivery followed by a successful one
C26_Witness ==
    /\ SendCompleted
    /\ Len(emailResults) >= 2
    /\ ~emailResults[1].success
    /\ emailResults[2].success

-----------------------------------------------------------------------------
(* patternDetection: the rule catalog *)

\* a PatternRule; global is the flag g of the regex (the flag i is applied to the
\* pattern), validator names the predicate of the rule ("none" if it has none)
Rule(name, regex, global, type, priority, validator) ==
    [name |-> name, regex |-> regex, global |-> global, type |-> type,
     priority |-> priority, validator |-> validator]

\* /(?:account\s*(?:number|nbr|#)|acct\s*(?:number|nbr|#))[:\s]+([A-Z0-9\-]+)/gi
LabelSuffix == Alt(<< <<Lit("n"), Lit("u"), Lit("m"), Lit("b"), Lit("e"), Lit("r")>>, <<Lit("n"), Lit("b"), Lit("r")>>, <<Lit("#")>> >>)
labeled_account_numbers ==
    Rule("labeled_account_numbers",
         IgnoreCase(<< Alt(<< <<Lit("a"), Lit("c"), Lit("c"), Lit("o"), Lit("u"), Lit("n"), Lit("t"), Cls(WhiteSpace, 0, Unbounded), LabelSuffix>>,
                              <<Lit("a"), Lit("c"), Lit("c"), Lit("t"), Cls(WhiteSpace, 0, Unbounded), LabelSuffix>> >>),
                       Cls({":"} \cup WhiteSpace, 1, Unbounded),
                       CapOpen, Cls(Upper \cup Digit \cup {"-"}, 1, Unbounded), CapClose >>),
         TRUE, "account", 10, "length4to20")

\* /\b[A-Z]{2,6}\d{4,12}\b/g
alphanumeric_codes ==
    Rule("alphanumeric_codes", <<WordB, Cls(Upper, 2, 6), Cls(Digit, 4, 12), WordB>>,
         TRUE, "account", 8, "alphanumericCode")

\* /\b\d{6,15}\b/g
numeric_accounts ==
    Rule("numeric_accounts", <<WordB, Cls(Digit, 6, 15), WordB>>,
         TRUE, "account", 6, "numericAccount")

\* rules a caller supplies in place of the default catalog
\* { regex: /[A-Z]\d/gi, type: 'account', priority: 5 }
short_codes ==
    Rule("short_codes", IgnoreCase(<<Cls(Upper, 1, 1), Cls(Digit, 1, 1)>>),
         TRUE, "account", 5, "none")
\* { regex: /\d*/g, type: 'account', priority: 6 }
digit_runs == Rule("digit_runs", <<Cls(Digit, 0, Unbounded)>>, TRUE, "account", 6, "none")
\* { regex: /[A-Z]+/, type: 'name', priority: 7, validator: m => m.length >= 2 }
first_word == Rule("first_word", <<Cls(Upper, 1, Unbounded)>>, FALSE, "name", 7, "length2")
\* { regex: /\d+/g, type: 'phone', priority: -20 }
digits_low == Rule("digits_low", <<Cls(Digit, 1, Unbounded)>>, TRUE, "phone", -20, "none")
\* { regex: /[A-Z]+\d+/g, type: 'account', priority: 40 }
codes_high ==
    Rule("codes_high", <<Cls(Upper, 1, Unbounded), Cls(Digit, 1, Unbounded)>>,
         TRUE, "account", 40, "none")

\* { regex: /\d/g, type: 'account', priority: 5,
\*   validator: () => { detectPatterns('', rules); return true; } }
\* where rules is the catalog that holds the rule
nested_scan == Rule("nested_scan", <<Cls(Digit, 1, 1)>>, TRUE, "account", 5, "reenter")

\* /\b[A-Z][a-z]+\s+[A-Z][a-z]+(?:\s+[A-Z][a-z]+)?\b/g
formal_names ==
    Rule("formal_names",
         <<WordB, Cls(Upper, 1, 1), Cls(Lower, 1, Unbounded), Cls(WhiteSpace, 1, Unbounded),
           Cls(Upper, 1, 1), Cls(Lower, 1, Unbounded),
           Alt(<< <<Cls(WhiteSpace, 1, Unbounded), Cls(Upper, 1, 1), Cls(Lower, 1, Unbounded)>>,
                  <<>> >>),
           WordB>>,
         TRUE, "name", 7, "nameNotCommon")

\* /\b[A-Z]{2,}\s+[A-Z]{2,}(?:\s+[A-Z]{2,})?\b/g
all_caps_names ==
    Rule("all_caps_names",
         <<WordB, Cls(Upper, 2, Unbounded), Cls(WhiteSpace, 1, Unbounded), Cls(Upper, 2, Unbounded),
           Alt(<< <<Cls(WhiteSpace, 1, Unbounded), Cls(Upper, 2, Unbounded)>>, <<>> >>),
           WordB>>,
         TRUE, "name", 6, "nameNotCommon")

\* the rule objects of the model, by index; a catalog is a sequence of indexes
Rules == <<labeled_account_numbers, alphanumeric_codes, numeric_accounts,
           short_codes, digit_runs, first_word, digits_low, codes_high, nested_scan,
           formal_names, all_caps_names>>
RuleIds == DOMAIN Rules

\* the rules of PATTERN_RULES the model holds (its three account rules)
PATTERN_RULES == <<1, 2, 3>>

\* isCommonNumber
isCommonNumber(num) ==
    LET years == <<Alt(<< <<Lit("1"), Lit("9")>>, <<Lit("2"), Lit("0")>> >>), Cls(Digit, 2, 2)>>
        mmdd == << Alt(<< <<Lit("0"), Cls(Digit \ {"0"}, 1, 1)>>,
                          <<Lit("1"), Cls({"0", "1", "2"}, 1, 1)>> >>),
                   Alt(<< <<Lit("0"), Cls(Digit \ {"0"}, 1, 1)>>,
                          <<Cls({"1", "2"}, 1, 1), Cls(Digit, 1, 1)>>,
                          <<Lit("3"), Cls({"0", "1"}, 1, 1)>> >>) >>
        timeLike == <<Cls({"0", "1"}, 1, 1), Cls(Digit, 3, 3)>>
        phone == << Alt(<< <<Lit("5"), Lit("5"), Lit("5")>>, <<Lit("8"), Lit("0"), Lit("0")>>, <<Lit("8"), Lit("8"), Lit("8")>>,
                           <<Lit("8"), Lit("7"), Lit("7")>>, <<Lit("8"), Lit("6"), Lit("6")>>, <<Lit("8"), Lit("5"), Lit("5")>>,
                           <<Lit("8"), Lit("4"), Lit("4")>>, <<Lit("8"), Lit("3"), Lit("3")>>, <<Lit("8"), Lit("2"), Lit("2")>> >>),
                    Cls(Digit, 7, 7) >>
    IN \E pattern \in {years, mmdd, timeLike, phone} : TestWhole(pattern, num)

isValidName(name) ==
    LET cleaned == trim(name)
        specialChars == {i \in DOMAIN cleaned :
                            cleaned[i] \notin Upper \cup Lower \cup WhiteSpace \cup {"&", "'", ".", "-"}}
    IN /\ Len(cleaned) >= 2
       /\ \E i \in DOMAIN cleaned : cleaned[i] \in Upper \cup Lower
       /\ ~TestWhole(<<Cls(Digit, 1, Unbounded)>>, cleaned)
       /\ Cardinality(specialChars) <= 2

commonWords ==
    {
      <<"T","H","E">>, <<"A","N","D">>, <<"F","O","R">>, <<"A","R","E">>, <<"B","U","T">>, <<"N","O","T">>,
      <<"Y","O","U">>, <<"A","L","L">>, <<"C","A","N">>, <<"H","E","R">>, <<"W","A","S">>, <<"O","N","E">>,
      <<"O","U","R">>, <<"H","A","D">>, <<"B","Y">>, <<"W","O","R","D">>, <<"O","I","L">>, <<"S","I","T">>,
      <<"S","E","T">>, <<"R","U","N">>, <<"E","A","T">>, <<"F","A","R">>, <<"S","E","A">>, <<"E","Y","E">>,
      <<"O","L","D">>, <<"S","E","E">>, <<"H","I","M">>, <<"T","W","O">>, <<"H","O","W">>, <<"I","T","S">>,
      <<"W","H","O">>, <<"D","I","D">>, <<"Y","E","S">>, <<"H","I","S">>, <<"H","A","S">>, <<"L","E","T">>,
      <<"P","U","T">>, <<"T","O","O">>, <<"U","S","E">>, <<"W","A","Y">>, <<"M","A","Y">>, <<"S","A","Y">>,
      <<"S","H","E">>, <<"N","E","W">>, <<"T","R","Y">>, <<"M","A","N">>, <<"D","A","Y">>, <<"G","E","T">>,
      <<"N","O","W">> }

\* commonWords.includes(text.toUpperCase().replace(/\s+/g, ' ').trim())
isCommonWord(str) ==
    trim(replaceAll(<<Cls(WhiteSpace, 1, Unbounded)>>, toUpperCase(str), <<" ">>)) \in commonWords

\* rule.validator(value); a rule without a validator accepts every value
Validate(rule, value) ==
    CASE rule.validator = "none" -> TRUE
      [] rule.validator = "length4to20" -> Len(value) >= 4 /\ Len(value) <= 20
      [] rule.validator = "alphanumericCode" ->
            TestWhole(<<Cls(Upper, 2, 6), Cls(Digit, 4, 12)>>, value)
      [] rule.validator = "numericAccount" ->
            LET num == SelectSeq(value, LAMBDA c : c \in Digit) IN
            Len(num) >= 6 /\ Len(num) <= 15 /\ ~isCommonNumber(num)
      [] rule.validator = "length2" -> Len(value) >= 2
      [] rule.validator = "reenter" -> TRUE
      [] rule.validator = "nameNotCommon" -> isValidName(value) /\ ~isCommonWord(value)

-----------------------------------------------------------------------------
(* patternDetection.detectPatterns.  Confidence is counted in hundredths.   *)

ContextRadius == 50
BaseConfidence == 50
PriorityWeight == 3
LabelBoost == 20
FormatBoost == 10
LengthPenalty == 20
MinValueLength == 3
MaxValueLength == 50
FullConfidence == 100

labelWords == <<<<"n","a","m","e">>,
               <<"a","c","c","o","u","n","t">>,
               <<"n","u","m","b","e","r">>,
               <<"c","u","s","t","o","m","e","r">>,
               <<"b","i","l","l">>,
               <<"t","o">>,
               <<"h","o","l","d","e","r">>>>

Max(a, b) == IF a >= b THEN a ELSE b
Min(a, b) == IF a <= b THEN a ELSE b

\* the confidence before Math.max(0, Math.min(1, confidence))
rawConfidence(value, context, rule) ==
    LET hasLabel == \E w \in DOMAIN labelWords :
                        includes(toLowerCase(context), toLowerCase(labelWords[w]))
    IN BaseConfidence + PriorityWeight * rule.priority
       + (IF hasLabel THEN LabelBoost ELSE 0)
       + (IF rule.type = "account"
             /\ TestWhole(<<Cls(Upper, 1, Unbounded), Cls(Digit, 1, Unbounded)>>, value)
          THEN FormatBoost ELSE 0)
       - (IF Len(value) < MinValueLength \/ Len(value) > MaxValueLength
          THEN LengthPenalty ELSE 0)

\* mutant: the label words of the context are not looked at
calculateConfidence_NoLabelBoost(value, context, rule) ==
    Max(0, Min(FullConfidence, rawConfidence(value, <<>>, rule)))

\* mutant: the confidence is returned without the clamp
calculateConfidence_NoClamp(value, context, rule) == rawConfidence(value, context, rule)

calculateConfidence(value, context, rule) ==
    Max(0, Min(FullConfidence, rawConfidence(value, context, rule)))

\* mutant: the values are compared as written, not lower-cased
removeDuplicates_CaseSensitive(found) ==
    LET keep == {i \in DOMAIN found : \A j \in 1..(i - 1) : found[j].value # found[i].value}
    IN [k \in 1..Cardinality(keep) |->
           found[CHOOSE i \in keep : Cardinality({j \in keep : j < i}) = k - 1]]

\* matches.filter(...) with the Set seen: the first match of every lower-cased value
removeDuplicates(found) ==
    LET keep == {i \in DOMAIN found : \A j \in 1..(i - 1) :
                    toLowerCase(found[j].value) # toLowerCase(found[i].value)}
    IN [k \in 1..Cardinality(keep) |->
           found[CHOOSE i \in keep : Cardinality({j \in keep : j < i}) = k - 1]]

\* mutant: the list is left in the order of removeDuplicates
sortByConfidence_Missing(list) == list

\* insert m behind the elements that do not compare after it
RECURSIVE insertByConfidence(_, _)
insertByConfidence(sorted, m) ==
    IF sorted = <<>> THEN <<m>>
    ELSE IF Head(sorted).confidence >= m.confidence
         THEN <<Head(sorted)>> \o insertByConfidence(Tail(sorted), m)
         ELSE <<m>> \o sorted

\* list.sort((a, b) => b.confidence - a.confidence): stable, descending
RECURSIVE sortByConfidence(_)
sortByConfidence(list) ==
    IF list = <<>> THEN <<>>
    ELSE insertByConfidence(sortByConfidence(SubSeq(list, 1, Len(list) - 1)), list[Len(list)])

\* results.set(name, value) on a Map kept as a sequence of entries in insertion order
mapSet(map, name, value) ==
    IF \E i \in DOMAIN map : map[i].name = name
    THEN [i \in DOMAIN map |-> IF map[i].name = name
                               THEN [name |-> name, matches |-> value] ELSE map[i]]
    ELSE Append(map, [name |-> name, matches |-> value])

\* rule.regex.exec(text) with the cursor at index: the match and the new cursor
exec(rule, str, index) ==
    LET from == IF rule.global THEN index ELSE 0
        m == Search(rule.regex, str, from)
    IN [match |-> m,
        lastIndex |-> IF ~rule.global THEN index
                      ELSE IF m.index = -1 THEN 0 ELSE m.end]

\* the PatternMatch pushed for a match of rule in str
matchOfRule(rule, str, m) ==
    LET whole == substring(str, m.index, m.end)
        group == IF m.cs # -1 /\ m.ce # -1 THEN substring(str, m.cs, m.ce) ELSE <<>>
        value == IF group # <<>> THEN group ELSE whole
        contextStart == Max(0, m.index - ContextRadius)
        contextEnd == Min(Len(str), m.index + Len(whole) + ContextRadius)
        context == substring(str, contextStart, contextEnd)
    IN [value |-> value, position |-> m.index,
        confidence |-> calculateConfidence(value, context, rule),
        context |-> trim(context)]

\* the cursors after a nested detectPatterns('', rules) has returned: for every rule
\* of the catalog the cursor is reset and the one exec on the empty text runs
nestedDetect(cursors, rules) ==
    [r \in DOMAIN cursors |->
        IF \E i \in DOMAIN rules : rules[i] = r
        THEN exec(Rules[r], <<>>, 0).lastIndex
        ELSE cursors[r]]

\* the cursors after rule.validator(value) has returned
afterValidator(rule, cursors, rules) ==
    IF rule.validator = "reenter" THEN nestedDetect(cursors, rules) ELSE cursors

\* mutant: the cursor of the rule is not reset
resetLastIndex_Missing(r) == lastIndex

\* rule.regex.lastIndex = 0
resetLastIndex(r) == [lastIndex EXCEPT ![r] = 0]

\* the forEach callback is entered for the rule at position idx of the catalog
EnterRule(idx) ==
    /\ ruleIdx' = idx
    /\ ruleMatches' = <<>>
    /\ execCount' = 0
    /\ lastIndex' = resetLastIndex(catalog[idx])
    /\ detPc' = "loop"

\* detectPatterns(text, rules) is called
CallDetect ==
    /\ detPc = "idle"
    /\ callNo < 2
    /\ callNo' = callNo + 1
    /\ detResults' = <<>>
    /\ rawMatches' = <<>>
    /\ cursorAtCall' = [cursorAtCall EXCEPT ![callNo + 1] = Some(lastIndex)]
    /\ IF catalog = <<>>
       THEN /\ returned' = [returned EXCEPT ![callNo + 1] = Some(<<>>)]
            /\ UNCHANGED <<ruleIdx, ruleMatches, execCount, lastIndex, detPc>>
       ELSE /\ EnterRule(1)
            /\ UNCHANGED returned
    /\ UNCHANGED <<text, catalog, filenameVars, matchVars, sendVars, toolVars>>

\* one evaluation of the while condition and, after a match, of the loop body
ExecStep ==
    /\ detPc = "loop"
    /\ execCount <= Len(text) + 2
    /\ LET r == catalog[ruleIdx]
           rule == Rules[r]
           e == exec(rule, text, lastIndex[r])
           cursors == [lastIndex EXCEPT ![r] = e.lastIndex]
       IN /\ lastIndex' = IF e.match.index = -1 THEN cursors
                          ELSE afterValidator(rule, cursors, catalog)
          /\ execCount' = execCount + 1
          /\ IF e.match.index = -1
             THEN /\ detPc' = "finish"
                  /\ UNCHANGED ruleMatches
             ELSE LET m == matchOfRule(rule, text, e.match) IN
                  IF ~Validate(rule, m.value)
                  THEN UNCHANGED <<detPc, ruleMatches>>
                  ELSE /\ ruleMatches' = Append(ruleMatches, m)
                       /\ detPc' = IF ~rule.global THEN "finish" ELSE "loop"
    /\ UNCHANGED <<text, catalog, callNo, ruleIdx, detResults, rawMatches, cursorAtCall,
                   returned, filenameVars, matchVars, sendVars, toolVars>>

\* after the loop: the entry of the rule is set, and the next rule is entered or
\* the Map is returned
FinishRule ==
    /\ detPc = "finish"
    /\ LET name == Rules[catalog[ruleIdx]].name
           map == IF Len(ruleMatches) > 0
                  THEN mapSet(detResults, name, sortByConfidence(removeDuplicates(ruleMatches)))
                  ELSE detResults
       IN /\ detResults' = map
          /\ rawMatches' = mapSet(rawMatches, name, ruleMatches)
          /\ IF ruleIdx < Len(catalog)
             THEN /\ EnterRule(ruleIdx + 1)
                  /\ UNCHANGED returned
             ELSE /\ returned' = [returned EXCEPT ![callNo] = Some(map)]
                  /\ detPc' = "idle"
                  /\ UNCHANGED <<ruleIdx, ruleMatches, execCount, lastIndex>>
    /\ UNCHANGED <<text, catalog, callNo, cursorAtCall, filenameVars, matchVars, sendVars, toolVars>>

-----------------------------------------------------------------------------
(* Specification of the pattern matcher: detectPatterns is called twice with *)
(* the same text and the same catalog; before the first call the cursors of  *)
(* the rule objects are wherever earlier matching left them                  *)

TextAlphabet == {"A", "a", "1"}
Spaces(n) == [i \in 1..n |-> " "]

RuleId(name) == CHOOSE r \in RuleIds : Rules[r].name = name
CallerCatalogs ==
    { <<RuleId("short_codes")>>, <<RuleId("digit_runs")>>, <<RuleId("first_word")>>,
      <<RuleId("digits_low"), RuleId("codes_high")>>,
      <<RuleId("short_codes"), RuleId("codes_high")>> }

DefaultTexts ==
    { <<"A","c","c","t","#",":"," ","a","b","1","2"," ","A","c","c","o","u","n","t"," ","N","b","r",":"," ","A","B","1","2">>,
      <<"A","B","1","2","3","4"," ","1","2","3","4","5","6"," ","8","0","0","5","5","5","1","2","3","4">>,
      <<"A","B","1","2","3","4">> \o Spaces(60) \o <<"t","o"," ","A","B","1","2","3","4">>,
      <<"A","B","1","2","3","4"," ","C","D","5","6","7","8">> \o Spaces(60) \o <<"t","o"," ","E","F","9","0","1","2">>,
      <<"A","c","c","o","u","n","t"," ","N","b","r",":"," ","F","B","N","W","S","T","X","9","9","9","8","8","8">> }

\* the two name rules of PATTERN_RULES that consult the stoplist
NameRules == <<RuleId("formal_names"), RuleId("all_caps_names")>>
NameTexts ==
    { <<"T","h","e"," ","A","m","o","u","n","t">>,
      <<"T","H","E"," ","A","M","O","U","N","T">>,
      <<"T","h","e"," ","A","m","o","u","n","t"," ","D","u","e"," ","J","o","h","n"," ","S","m","i","t","h">>,
      <<"J","o","h","n"," ","S","m","i","t","h"," ","O","L","D"," ","M","A","N">>,
      <<"T","h","e">>, <<"T","H","E">> }

DetectInputs ==
    {<<t, c>> : t \in SeqsUpTo(TextAlphabet, MaxTextLen), c \in CallerCatalogs}
    \cup {<<t, c>> : t \in DefaultTexts, c \in {PATTERN_RULES, <<>>}}
    \cup {<<t, c>> : t \in NameTexts, c \in {NameRules}}

\* cursor values left behind by earlier matching
StaleIndexes == {0, 1, 3}

InitDetect ==
    /\ \E in \in DetectInputs : text = in[1] /\ catalog = in[2]
    /\ \E stale \in [{catalog[i] : i \in DOMAIN catalog} -> StaleIndexes] :
          lastIndex = [r \in RuleIds |-> IF r \in DOMAIN stale THEN stale[r] ELSE 0]
    /\ callNo = 0 /\ detPc = "idle" /\ ruleIdx = 0 /\ ruleMatches = <<>> /\ execCount = 0
    /\ detResults = <<>> /\ rawMatches = <<>> /\ cursorAtCall = <<None, None>>
    /\ returned = <<None, None>>
    /\ FilenameIdle /\ MatchIdle /\ SendIdle /\ ToolIdle

NextDetect == CallDetect \/ ExecStep \/ FinishRule

SpecDetect == InitDetect /\ [][NextDetect]_vars

\* the matches of the entry of a rule name in a Map kept as a sequence, <<>> if absent
EntryOf(map, name) ==
    IF \E i \in DOMAIN map : map[i].name = name
    THEN map[CHOOSE i \in DOMAIN map : map[i].name = name].matches
    ELSE <<>>

\* C7: two calls of detectPatterns with the same text and the same catalog return
\* identical mappings (same rule keys, same matches, same order), wherever the
\* cursors of the rules were before the calls.
C7_Deterministic ==
    (returned[1] # None /\ returned[2] # None) => returned[1] = returned[2]

\* both calls have returned a non-empty mapping, and before the first one the
\* cursor of a rule stood behind a match that the call reported
C7_Witness ==
    /\ returned[1] # None /\ returned[2] # None
    /\ \E i \in DOMAIN returned[1][1] :
          \E r \in RuleIds :
             /\ Rules[r].name = returned[1][1][i].name
             /\ cursorAtCall[1][1][r] > 0
             /\ \E k \in DOMAIN returned[1][1][i].matches :
                   returned[1][1][i].matches[k].position < cursorAtCall[1][1][r]

\* C8: the matching loop of every rule ends, also for a global pattern with a
\* zero-width or non-advancing match.  A loop over a text of n characters that
\* ends has called exec at most n + 2 times: exec and the validators are
\* deterministic, so the loop ends only if no cursor value occurs twice at the
\* loop head, which allows n + 1 matches and one failing call; a loop that
\* has called exec more often than that never ends.
C8_LoopTerminates == execCount <= Len(text) + 2

\* C9: every PatternMatch has a confidence between 0 and 1 (0 and 100 hundredths),
\* whatever the priority of the rule, its type, the candidate and the context.
C9_ConfidenceBounds ==
    /\ \A k \in DOMAIN ruleMatches :
          ruleMatches[k].confidence >= 0 /\ ruleMatches[k].confidence <= 100
    /\ \A c \in 1..2 : returned[c] # None =>
          \A i \in DOMAIN returned[c][1] : \A k \in DOMAIN returned[c][1][i].matches :
              /\ returned[c][1][i].matches[k].confidence >= 0
              /\ returned[c][1][i].matches[k].confidence <= 100

\* a returned mapping with a match of a rule of priority -20 at confidence 0 and a
\* match of a rule of priority 40 at confidence 1
C9_Witness ==
    /\ returned[1] # None
    /\ \E k \in DOMAIN EntryOf(returned[1][1], "digits_low") :
          EntryOf(returned[1][1], "digits_low")[k].confidence = 0
    /\ \E k \in DOMAIN EntryOf(returned[1][1], "codes_high") :
          EntryOf(returned[1][1], "codes_high")[k].confidence = 100

\* the letters of a value in one case, stated without the code's operators
Folded(value) == [i \in DOMAIN value |-> UpperChar(value[i])]

\* C10: in every result list no two matches have case-insensitively equal values,
\* and the match kept for a value is its first validated occurrence in the text,
\* also when a later occurrence of the value has a higher confidence.
C10_DedupKeepsFirst ==
    (detPc = "idle" /\ callNo > 0 /\ returned[callNo] # None) =>
        \A i \in DOMAIN returned[callNo][1] :
            LET kept == returned[callNo][1][i].matches
                raw == EntryOf(rawMatches, returned[callNo][1][i].name)
            IN /\ \A a, b \in DOMAIN kept :
                     Folded(kept[a].value) = Folded(kept[b].value) => a = b
               /\ \A a \in DOMAIN kept : \E k \in DOMAIN raw : raw[k] = kept[a]
               /\ \A k \in DOMAIN raw : \E a \in DOMAIN kept :
                     /\ Folded(kept[a].value) = Folded(raw[k].value)
                     /\ kept[a].position <= raw[k].position

\* a returned list whose kept match has a later occurrence of higher confidence
C10_Witness ==
    /\ detPc = "idle" /\ callNo > 0 /\ returned[callNo] # None
    /\ \E i \in DOMAIN returned[callNo][1] :
          LET kept == returned[callNo][1][i].matches
              raw == EntryOf(rawMatches, returned[callNo][1][i].name)
          IN \E a \in DOMAIN kept : \E k \in DOMAIN raw :
                /\ Folded(kept[a].value) = Folded(raw[k].value)
                /\ raw[k].position > kept[a].position
                /\ raw[k].confidence > kept[a].confidence

\* C18: in every result list returned by detectPatterns the matches are in
\* non-increasing order of confidence, and two matches of equal confidence are in
\* source order (ascending position).
C18_SortedByConfidence ==
    \A c \in 1..2 : returned[c] # None =>
        \A i \in DOMAIN returned[c][1] :
            LET list == returned[c][1][i].matches IN
            \A a, b \in DOMAIN list : a < b =>
                /\ list[a].confidence >= list[b].confidence
                /\ list[a].confidence = list[b].confidence =>
                      list[a].position < list[b].position

\* a returned list of three matches: the first stands behind the second in the text,
\* the second and the third have the same confidence
C18_Witness ==
    /\ returned[1] # None
    /\ \E i \in DOMAIN returned[1][1] :
          LET list == returned[1][1][i].matches IN
          /\ Len(list) = 3
          /\ list[1].position > list[2].position
          /\ list[1].confidence > list[2].confidence
          /\ list[2].confidence = list[3].confidence
          /\ list[2].position < list[3].position

\* the label vocabulary as the documentation lists it
LabelVocabulary ==
    { <<"n","a","m","e">>, <<"a","c","c","o","u","n","t">>, <<"n","u","m","b","e","r">>, <<"c","u","s","t","o","m","e","r">>, <<"b","i","l","l">>, <<"t","o">>, <<"h","o","l","d","e","r">> }

\* the confidence, in hundredths, that the documented formula gives a match of a rule
DocumentedConfidence(m, rule) ==
    LET labelled == \E w \in LabelVocabulary : \E p \in 0..Len(m.context) :
                       OccursAt(Folded(m.context), Folded(w), p)
        shaped == /\ rule.type = "account"
                  /\ \E k \in 1..(Len(m.value) - 1) :
                        /\ \A i \in 1..k : m.value[i] \in Upper
                        /\ \A i \in (k + 1)..Len(m.value) : m.value[i] \in Digit
        outside == Len(m.value) < 3 \/ Len(m.value) > 50
        sum == 50 + 3 * rule.priority + (IF labelled THEN 20 ELSE 0)
                  + (IF shaped THEN 10 ELSE 0) - (IF outside THEN 20 ELSE 0)
    IN IF sum < 0 THEN 0 ELSE IF sum > 100 THEN 100 ELSE sum

\* C19: the confidence of a match is the clamp to [0, 1] of 0.5 + 0.03 * priority
\* + 0.2 if the context window contains a label word, case-insensitively, + 0.1 if
\* the rule type is account and the candidate is uppercase letters followed by
\* digits, - 0.2 if the candidate is shorter than 3 or longer than 50; and the text
\* "Account Nbr: FBNWSTX999888" gives under the labeled-account rule exactly one
\* match, of value "FBNWSTX999888" and confidence above 0.8.
C19_ConfidenceFormula ==
    \A c \in 1..2 : returned[c] # None =>
        /\ \A i \in DOMAIN returned[c][1] :
              \A k \in DOMAIN returned[c][1][i].matches :
                 returned[c][1][i].matches[k].confidence
                    = DocumentedConfidence(returned[c][1][i].matches[k],
                                           Rules[RuleId(returned[c][1][i].name)])
        /\ (text = <<"A","c","c","o","u","n","t"," ","N","b","r",":"," ","F","B","N","W","S","T","X","9","9","9","8","8","8">> /\ catalog = PATTERN_RULES) =>
              LET list == EntryOf(returned[c][1], "labeled_account_numbers") IN
              /\ Len(list) = 1
              /\ list[1].value = <<"F","B","N","W","S","T","X","9","9","9","8","8","8">>
              /\ list[1].confidence > 80

\* the documented text has been matched, and its match has the label boost
C19_Witness ==
    /\ returned[1] # None
    /\ text = <<"A","c","c","o","u","n","t"," ","N","b","r",":"," ","F","B","N","W","S","T","X","9","9","9","8","8","8">>
    /\ Len(EntryOf(returned[1][1], "labeled_account_numbers")) = 1
    /\ EntryOf(returned[1][1], "labeled_account_numbers")[1].confidence = 100

\* C17: a rule whose pattern is not global is applied to the text exactly once and
\* contributes at most one match, whether its validator accepts the candidate or
\* rejects it.
C17_NonGlobalAppliedOnce ==
    (detPc \in {"loop", "finish"} /\ ~Rules[catalog[ruleIdx]].global) =>
        /\ execCount <= 1
        /\ Len(ruleMatches) <= 1

\* the first word of a candidate, in upper case
FirstWord(value) ==
    LET cleaned == trim(value)
        stops == {i \in DOMAIN cleaned : cleaned[i] \in WhiteSpace}
        n == IF stops = {} THEN Len(cleaned)
             ELSE (CHOOSE i \in stops : \A j \in stops : i <= j) - 1
    IN Folded(SubSeq(cleaned, 1, n))

\* C24: a candidate of the formal-name or the all-caps-name rule whose first word
\* is a stoplist word (such as "The Amount") is rejected by the validator and does
\* not appear in the result of detectPatterns for that rule.
C24_StoplistSuppresses ==
    returned[1] # None =>
        \A name \in {"formal_names", "all_caps_names"} :
            \A m \in DOMAIN EntryOf(returned[1][1], name) :
                FirstWord(EntryOf(returned[1][1], name)[m].value) \notin commonWords

\* digit strings of 4 to 7 digits over four digits, and ten-digit numbers
NumericSamples ==
    {c \in SeqsUpTo({"0", "1", "2", "9"}, 7) : Len(c) >= 4}
    \cup { <<"8","0","0","5","5","5","1","2","3","4">>,
           <<"5","5","5","0","1","2","0","1","9","9">>,
           <<"2","0","1","9","1","2","3","1","0","0">> }

\* the candidates the pattern of numeric_accounts can produce
NumericCandidates == {c \in NumericSamples : TestWhole(numeric_accounts.regex, c)}

\* the number classes named by the validator's comments: a year 19xx or 20xx,
\* a month 01-12 followed by a day 01-31, a toll-free prefix and seven digits
LooksLikeYear(num) ==
    /\ Len(num) = 4
    /\ SubSeq(num, 1, 2) \in {<<"1","9">>, <<"2","0">>}
LooksLikeMMDD(num) ==
    /\ Len(num) = 4
    /\ \/ num[1] = "0" /\ num[2] \in Digit \ {"0"}
       \/ num[1] = "1" /\ num[2] \in {"0", "1", "2"}
    /\ \/ num[3] = "0" /\ num[4] \in Digit \ {"0"}
       \/ num[3] \in {"1", "2"} /\ num[4] \in Digit
       \/ num[3] = "3" /\ num[4] \in {"0", "1"}
TollFree(num) ==
    /\ Len(num) = 10
    /\ SubSeq(num, 1, 3) \in
          { <<"5","5","5">>, <<"8","0","0">>, <<"8","8","8">>, <<"8","7","7">>, <<"8","6","6">>,
            <<"8","5","5">>, <<"8","4","4">>, <<"8","3","3">>, <<"8","2","2">> }

\* C23: once detectPatterns has returned under the default catalog, no match of the
\* numeric-account rule looks like a calendar year, like an MMDD date or like a
\* toll-free number, the validator rejects every such candidate, and each of the
\* three classes holds at least one candidate the rule's pattern can produce.
C23_RejectionClassesProducible ==
    (returned[1] # None /\ catalog = PATTERN_RULES) =>
        /\ \A m \in DOMAIN EntryOf(returned[1][1], "numeric_accounts") :
              LET c == EntryOf(returned[1][1], "numeric_accounts")[m].value IN
              ~(LooksLikeYear(c) \/ LooksLikeMMDD(c) \/ TollFree(c))
        /\ \A c \in NumericCandidates :
              (LooksLikeYear(c) \/ LooksLikeMMDD(c) \/ TollFree(c)) =>
                  ~Validate(numeric_accounts, c)
        /\ \E c \in NumericCandidates : LooksLikeYear(c)
        /\ \E c \in NumericCandidates : LooksLikeMMDD(c)
        /\ \E c \in NumericCandidates : TollFree(c)

-----------------------------------------------------------------------------
(* Specification of two invocations of detectPatterns on one catalog whose   *)
(* steps interleave.  detectPatterns is synchronous, so the steps of a second *)
(* invocation can only run while the first is inside a validator: the second *)
(* invocation is the call detectPatterns('', rules) made by the validator of  *)
(* nested_scan, and it runs to its end before the first one goes on.          *)

NestedCatalogs ==
    { <<RuleId("nested_scan")>>, <<RuleId("short_codes"), RuleId("nested_scan")>> }

InitNested ==
    /\ text \in SeqsUpTo(TextAlphabet, MaxTextLen)
    /\ catalog \in NestedCatalogs
    /\ lastIndex = [r \in RuleIds |-> 0]
    /\ callNo = 0 /\ detPc = "idle" /\ ruleIdx = 0 /\ ruleMatches = <<>> /\ execCount = 0
    /\ detResults = <<>> /\ rawMatches = <<>> /\ cursorAtCall = <<None, None>>
    /\ returned = <<None, None>>
    /\ FilenameIdle /\ MatchIdle /\ SendIdle /\ ToolIdle

NextNested == CallDetect \/ ExecStep \/ FinishRule

SpecNested == InitNested /\ [][NextNested]_vars

\* C14: invocations of detectPatterns share no mutable state: when the steps of two
\* invocations on the same catalog are interleaved, each terminates and returns
\* what it returns alone.  Alone, an invocation calls exec at most Len(text) + 2
\* times for a rule and reports no occurrence twice.
C14_InterleavedAsAlone ==
    /\ execCount <= Len(text) + 2
    /\ \A a, b \in DOMAIN ruleMatches :
          ruleMatches[a].position = ruleMatches[b].position => a = b

-----------------------------------------------------------------------------
(* patternDetection.generateRegexPattern: a pattern source is a string *)

DigitSeq == <<"0","1","2","3","4","5","6","7","8","9">>

\* the decimal numeral a template literal renders for a number n >= 0
RECURSIVE decimal(_)
decimal(n) ==
    IF n < 10 THEN <<DigitSeq[n + 1]>>
    ELSE decimal(n \div 10) \o <<DigitSeq[(n % 10) + 1]>>

\* (ex.match(/[set]/g) || []).length
countOf(ex, set) == Cardinality({i \in DOMAIN ex : ex[i] \in set})

RECURSIVE MaxOf(_)
MaxOf(nums) == IF Len(nums) = 1 THEN nums[1] ELSE Max(nums[1], MaxOf(Tail(nums)))
RECURSIVE MinOf(_)
MinOf(nums) == IF Len(nums) = 1 THEN nums[1] ELSE Min(nums[1], MinOf(Tail(nums)))

\* `{${lo},${hi}}`
quantifier(lo, hi) == <<"{">> \o decimal(lo) \o <<",">> \o decimal(hi) \o <<"}">>

\* mutant: the counts are the smallest of the examples, not the largest
generateAccountPattern_MinCounts(exs) ==
    LET hasLetters == \E i \in DOMAIN exs : countOf(exs[i], Upper \cup Lower) > 0
        hasNumbers == \E i \in DOMAIN exs : countOf(exs[i], Digit) > 0
        letterCount == MinOf([i \in DOMAIN exs |-> countOf(exs[i], Upper \cup Lower)])
        numberCount == MinOf([i \in DOMAIN exs |-> countOf(exs[i], Digit)])
        minLength == MinOf([i \in DOMAIN exs |-> Len(exs[i])])
        maxLength == MaxOf([i \in DOMAIN exs |-> Len(exs[i])])
    IN IF hasLetters /\ hasNumbers
       THEN <<"[","A","-","Z","]">> \o quantifier(Max(1, letterCount - 1), letterCount + 1)
            \o <<"\\","d">> \o quantifier(Max(1, numberCount - 1), numberCount + 1)
       ELSE IF hasNumbers
       THEN <<"\\","d">> \o quantifier(minLength, maxLength)
       ELSE <<"[","A","-","Z","0","-","9","]","+">>

generateAccountPattern(exs) ==
    LET hasLetters == \E i \in DOMAIN exs : countOf(exs[i], Upper \cup Lower) > 0
        hasNumbers == \E i \in DOMAIN exs : countOf(exs[i], Digit) > 0
        letterCount == MaxOf([i \in DOMAIN exs |-> countOf(exs[i], Upper \cup Lower)])
        numberCount == MaxOf([i \in DOMAIN exs |-> countOf(exs[i], Digit)])
        minLength == MinOf([i \in DOMAIN exs |-> Len(exs[i])])
        maxLength == MaxOf([i \in DOMAIN exs |-> Len(exs[i])])
    IN IF hasLetters /\ hasNumbers
       THEN <<"[","A","-","Z","]">> \o quantifier(Max(1, letterCount - 1), letterCount + 1)
            \o <<"\\","d">> \o quantifier(Max(1, numberCount - 1), numberCount + 1)
       ELSE IF hasNumbers
       THEN <<"\\","d">> \o quantifier(minLength, maxLength)
       ELSE <<"[","A","-","Z","0","-","9","]","+">>

\* ex.split(/\s+/).length
wordCount(ex) ==
    1 + Cardinality({i \in DOMAIN ex :
                        ex[i] \in WhiteSpace /\ (i = 1 \/ ex[i - 1] \notin WhiteSpace)})

generateNamePattern(exs) ==
    LET hasAmpersand == \E i \in DOMAIN exs : includes(exs[i], <<"&">>)
        maxWords == MaxOf([i \in DOMAIN exs |-> wordCount(exs[i])])
    IN IF hasAmpersand
       THEN <<"[","A","-","Z","]","[","a","-","z","]","+","\\","s","*","&","\\","s","*","[","A","-","Z","]","[","a","-","z","]","+","\\","s","+","[","A","-","Z","]","[","a","-","z","]","+">>
       ELSE IF maxWords >= 3
       THEN <<"[","A","-","Z","]","[","a","-","z","]","+","(","?",":","\\","s","+","[","A","-","Z","]","[","a","-","z","]","+",")","{","1",",","2","}">>
       ELSE <<"[","A","-","Z","]","[","a","-","z","]","+","\\","s","+","[","A","-","Z","]","[","a","-","z","]","+">>

\* the three replace calls: none rewrites what an earlier one has inserted
RECURSIVE generateGenericPattern(_)
generateGenericPattern(sample) ==
    IF sample = <<>> THEN <<>>
    ELSE (IF Head(sample) \in Upper \cup Lower THEN <<"[","A","-","Z","a","-","z","]">>
          ELSE IF Head(sample) \in Digit THEN <<"\\","d">>
          ELSE IF Head(sample) \in WhiteSpace THEN <<"\\","s","*">>
          ELSE <<Head(sample)>>) \o generateGenericPattern(Tail(sample))

generateRegexPattern(exs, type) ==
    IF Len(exs) = 0 THEN <<>>
    ELSE CASE type = "account" -> generateAccountPattern(exs)
           [] type = "name" -> generateNamePattern(exs)
           [] OTHER -> generateGenericPattern(exs[1])

-----------------------------------------------------------------------------
(* Specification of the pattern generator: one call of generateRegexPattern *)

ExampleStrings ==
    { <<"F","B","N","W","S","T","X","1","2","3","4">>,
      <<"S","M","N","W","S","T","X","5","6","7","8","9">>,
      <<"A","B","1","2">>,
      <<"A","B","C","D","1","2">>,
      <<"A","1","2","3","4">>,
      <<"a","b","1","2">>,
      <<"A","1","B","2">>,
      <<"1","2","3","4">>,
      <<"1","2">>,
      <<"A","B">>,
      <<"A","l"," ","B","o">>,
      <<"A","l"," ","B","o"," ","C","y">>,
      <<"A"," ","&"," ","B">> }
ExampleTypes == {"account", "name", "address"}

InitGenerate ==
    /\ examples \in SeqsUpTo(ExampleStrings, MaxExamples)
    /\ exampleType \in ExampleTypes
    /\ generated = None
    /\ FilenameIdle /\ MatchIdle /\ SendIdle /\ DetectIdle /\ TesterIdle /\ WorkflowIdle /\ TemplateIdle

GenerateRegexPattern ==
    /\ generated = None
    /\ generated' = Some(generateRegexPattern(examples, exampleType))
    /\ UNCHANGED <<examples, exampleType, filenameVars, matchVars, sendVars, detectVars,
                   testerVars, workflowVars, templateVars>>

NextGenerate == GenerateRegexPattern

SpecGenerate == InitGenerate /\ [][NextGenerate]_vars

-----------------------------------------------------------------------------
(* PatternDiscoveryTool: the Pattern Tester.  A saved pattern is a pattern  *)
(* source; valid tells whether new RegExp(source, 'gi') accepts it, and      *)
(* regex is the pattern it compiles to.                                      *)

MatchLimit == 50

SavedPattern(source, valid, regex) == [source |-> source, valid |-> valid, regex |-> regex]

\* the loop of testSinglePattern from the cursor index: the values pushed. An exec
\* that ends where it started leaves lastIndex in place, so every later exec returns
\* the same match and the loop pushes it until matches.length > 50 breaks it.
RECURSIVE collectMatches(_, _, _, _)
collectMatches(regex, str, index, found) ==
    LET m == Search(regex, str, index) IN
    IF m.index = -1 THEN found
    ELSE LET whole == substring(str, m.index, m.end)
             group == IF m.cs # -1 /\ m.ce # -1 THEN substring(str, m.cs, m.ce) ELSE <<>>
             value == IF group # <<>> THEN group ELSE whole
             pushed == Append(found, value)
         IN IF Len(pushed) > MatchLimit THEN pushed
            ELSE IF m.end = index
                 THEN found \o [i \in 1..(MatchLimit + 1 - Len(found)) |-> value]
            ELSE collectMatches(regex, str, m.end, pushed)

\* [...new Set(matches)]: the first occurrence of each value, in order
unique(values) ==
    LET firsts == {i \in DOMAIN values : \A j \in 1..(i - 1) : values[j] # values[i]}
    IN [k \in 1..Cardinality(firsts) |->
           values[CHOOSE i \in firsts : Cardinality({j \in firsts : j < i}) = k - 1]]

testSinglePattern(saved, str) ==
    IF ~saved.valid
    THEN [pattern |-> saved.source, matches |-> <<>>, success |-> FALSE,
          error |-> "Invalid regular expression"]
    ELSE [pattern |-> saved.source,
          matches |-> unique(collectMatches(IgnoreCase(saved.regex), str, 0, <<>>)),
          success |-> TRUE, error |-> ""]

\* mutant: the first pattern that fails ends the testing
testPatterns_StopAtError(patternsToTest, str) ==
    LET all == [i \in DOMAIN patternsToTest |-> testSinglePattern(patternsToTest[i], str)]
        reached == {i \in DOMAIN all : \A j \in 1..(i - 1) : all[j].success}
    IN [i \in 1..Cardinality(reached) |-> all[i]]

\* patternsToTest.map(pattern => testSinglePattern(pattern, testText))
testPatterns(patternsToTest, str) ==
    [i \in DOMAIN patternsToTest |-> testSinglePattern(patternsToTest[i], str)]

patternsToTest ==
    IF patternType = "account" THEN patterns.accountPatterns ELSE patterns.namePatterns

\* testAllPatterns: without test text only a toast is shown
TestAllPatterns ==
    /\ toast = ""
    /\ IF trim(testText) = <<>>
       THEN /\ toast' = "No Test Text"
            /\ UNCHANGED testResults
       ELSE /\ testResults' = Some(testPatterns(patternsToTest, testText))
            /\ toast' = "Testing Complete"
    /\ UNCHANGED <<testText, patterns, patternType, genVars, workflowVars, templateVars,
                   filenameVars, matchVars, sendVars, detectVars>>

\* the patterns a user can have saved
SavedPatterns ==
    { SavedPattern(<<"[","A","-","Z","]","\\","d">>, TRUE, <<Cls(Upper, 1, 1), Cls(Digit, 1, 1)>>),
      SavedPattern(<<"(","\\","d",")","\\","d">>, TRUE, <<CapOpen, Cls(Digit, 1, 1), CapClose, Cls(Digit, 1, 1)>>),
      SavedPattern(<<"\\","d","*">>, TRUE, <<Cls(Digit, 0, Unbounded)>>),
      SavedPattern(<<"[","A","-","Z">>, FALSE, <<>>),
      SavedPattern(<<"(","\\","d">>, FALSE, <<>>) }
TesterTexts ==
    { <<>>, <<" ">>, <<"A","1">>, <<"a","1"," ","A","1"," ","1","2">>, <<"1","2"," ","3","4","5">>, <<"a","b">> }

InitTester ==
    /\ testText \in TesterTexts
    /\ \E saved \in SeqsUpTo(SavedPatterns, MaxPatterns) :
          patterns \in { [accountPatterns |-> saved, namePatterns |-> <<>>],
                         [accountPatterns |-> <<>>, namePatterns |-> saved] }
    /\ patternType \in {"account", "name"}
    /\ testResults = None
    /\ toast = ""
    /\ FilenameIdle /\ MatchIdle /\ SendIdle /\ DetectIdle /\ GenIdle /\ WorkflowIdle /\ TemplateIdle

NextTester == TestAllPatterns

SpecTester == InitTester /\ [][NextTester]_vars

\* C15: a saved pattern that is no valid regular expression is reported as a failed
\* result (success false, an error message, no matches) for that pattern only:
\* testAllPatterns returns one result per saved pattern, in order, and the results
\* of the other patterns are those of a run without the malformed patterns.
C15_MalformedPatternIsolated ==
    testResults # None =>
        /\ Len(testResults[1]) = Len(patternsToTest)
        /\ \A i \in DOMAIN patternsToTest :
              /\ testResults[1][i].pattern = patternsToTest[i].source
              /\ testResults[1][i].success = patternsToTest[i].valid
              /\ ~patternsToTest[i].valid =>
                    testResults[1][i].matches = <<>> /\ testResults[1][i].error # ""
        /\ SelectSeq(testResults[1], LAMBDA r : r.success)
              = testPatterns(SelectSeq(patternsToTest, LAMBDA sp : sp.valid), testText)

\* a test has run on three patterns, the second malformed and the third with matches
C15_Witness ==
    /\ testResults # None
    /\ Len(patternsToTest) = 3
    /\ patternsToTest[1].valid /\ ~patternsToTest[2].valid /\ patternsToTest[3].valid
    /\ ~testResults[1][2].success
    /\ testResults[1][3].success /\ testResults[1][3].matches # <<>>

\* the number a decimal numeral denotes
RECURSIVE NumeralValue(_)
NumeralValue(ds) ==
    IF ds = <<>> THEN 0
    ELSE 10 * NumeralValue(SubSeq(ds, 1, Len(ds) - 1))
         + (CHOOSE d \in 0..9 : DigitSeq[d + 1] = ds[Len(ds)])

\* the k-th quantifier range {lo,hi} written in a pattern source, as a set of lengths
RangeAt(src, k) ==
    LET opens == {i \in DOMAIN src : src[i] = "{"}
        open == CHOOSE i \in opens : Cardinality({j \in opens : j < i}) = k - 1
        comma == CHOOSE i \in (open + 1)..Len(src) :
                    src[i] = "," /\ \A j \in (open + 1)..(i - 1) : src[j] # ","
        close == CHOOSE i \in (comma + 1)..Len(src) :
                    src[i] = "}" /\ \A j \in (comma + 1)..(i - 1) : src[j] # "}"
    IN NumeralValue(SubSeq(src, open + 1, comma - 1))
         .. NumeralValue(SubSeq(src, comma + 1, close - 1))

\* an example that is a run of k letters followed by a run of digits
LettersThenDigits(ex, k) ==
    /\ k \in 1..(Len(ex) - 1)
    /\ \A i \in 1..k : ex[i] \in Upper \cup Lower
    /\ \A i \in (k + 1)..Len(ex) : ex[i] \in Digit

\* C12: for type "account" and a non-empty list of examples that are each a run of
\* letters followed by a run of digits, the letter-class quantifier range of the
\* emitted pattern contains the letter-run length of every example and its
\* digit-class quantifier range contains the digit-run length of every example.
C12_RangesCoverExamples ==
    ( /\ generated # None /\ exampleType = "account" /\ examples # <<>>
      /\ \A i \in DOMAIN examples : \E k \in 1..Len(examples[i]) :
            LettersThenDigits(examples[i], k) )
    => \A i \in DOMAIN examples : \A k \in 1..Len(examples[i]) :
          LettersThenDigits(examples[i], k) =>
              /\ k \in RangeAt(generated[1], 1)
              /\ Len(examples[i]) - k \in RangeAt(generated[1], 2)

\* the example of the documentation: both ranges contain the observed lengths
C12_DocumentedExample ==
    ( /\ generated # None /\ exampleType = "account"
      /\ examples = <<<<"F","B","N","W","S","T","X","1","2","3","4">>, <<"S","M","N","W","S","T","X","5","6","7","8","9">>>> )
    => /\ 7 \in RangeAt(generated[1], 1)
       /\ {4, 5} \subseteq RangeAt(generated[1], 2)

\* the examples together contain a letter and a digit
MixedExamples ==
    /\ \E i \in DOMAIN examples : \E j \in DOMAIN examples[i] :
           examples[i][j] \in Upper \cup Lower
    /\ \E i \in DOMAIN examples : \E j \in DOMAIN examples[i] : examples[i][j] \in Digit

\* src is a letter class with the range lo1..hi1 followed by a digit class with lo2..hi2
IsLetterDigitPattern(src, lo1, hi1, lo2, hi2) ==
    LET closes == {i \in DOMAIN src : src[i] = "}"} IN
    /\ Cardinality(closes) = 2
    /\ Len(src) \in closes
    /\ SubSeq(src, 1, 6) = <<"[","A","-","Z","]","{">>
    /\ \E c \in closes : c < Len(src) /\ SubSeq(src, c + 1, c + 3) = <<"\\","d","{">>
    /\ RangeAt(src, 1) = lo1..hi1
    /\ RangeAt(src, 2) = lo2..hi2

\* the length of the longest block of consecutive characters of ex that are in set
MaxRun(ex, set) ==
    LET runs == {n \in 0..Len(ex) :
                    \E p \in 0..(Len(ex) - n) : \A i \in (p + 1)..(p + n) : ex[i] \in set}
    IN CHOOSE n \in runs : \A m \in runs : m <= n

\* the largest value of f over the examples
LargestOver(f) == CHOOSE n \in {f[i] : i \in DOMAIN f} : \A i \in DOMAIN f : f[i] <= n

\* C22 (as stated): for type "account" and examples that together contain letters and
\* digits, the pattern is a letter class with range [max(1, L-1), L+1] followed by a
\* digit class with range [max(1, D-1), D+1], L and D being the maximum letter-run
\* and digit-run lengths over the examples.
C22_RunLengthRanges ==
    (generated # None /\ exampleType = "account" /\ examples # <<>> /\ MixedExamples) =>
        LET L == LargestOver([i \in DOMAIN examples |-> MaxRun(examples[i], Upper \cup Lower)])
            D == LargestOver([i \in DOMAIN examples |-> MaxRun(examples[i], Digit)])
        IN IsLetterDigitPattern(generated[1], Max(1, L - 1), L + 1, Max(1, D - 1), D + 1)

\* C22 (amended): the same with L and D the largest number of letters, respectively
\* of digits, that one example contains, wherever they stand in the example.
C22_CountRanges ==
    (generated # None /\ exampleType = "account" /\ examples # <<>> /\ MixedExamples) =>
        LET L == LargestOver([i \in DOMAIN examples |->
                       Cardinality({j \in DOMAIN examples[i] : examples[i][j] \in Upper \cup Lower})])
            D == LargestOver([i \in DOMAIN examples |->
                       Cardinality({j \in DOMAIN examples[i] : examples[i][j] \in Digit})])
        IN IsLetterDigitPattern(generated[1], Max(1, L - 1), L + 1, Max(1, D - 1), D + 1)

\* a pattern has been generated from two examples, one of which interleaves letters
\* and digits, so that its counts are not its run lengths
C22_Witness ==
    /\ generated # None /\ exampleType = "account" /\ Len(examples) = 2 /\ MixedExamples
    /\ \E i \in DOMAIN examples :
          MaxRun(examples[i], Digit) < Cardinality({j \in DOMAIN examples[i] : examples[i][j] \in Digit})
    /\ generated[1] # <<>>

\* C16: when several customer records normalize to the same account key, every
\* segment with that key gets the customer record that comes last in input order;
\* an earlier record with that key is attached to no segment.
C16_LastWriteWins ==
    matches # None =>
        \A i \in DOMAIN matches[1] : \A k \in DOMAIN customerData :
            ( /\ KeyOf(customerData[k].accountNumber) = KeyOf(pdfFiles[i].accountNumber)
              /\ \A j \in (k + 1)..Len(customerData) :
                    KeyOf(customerData[j].accountNumber) # KeyOf(customerData[k].accountNumber) )
            => /\ matches[1][i].matched
               /\ matches[1][i].customer = customerData[k]

\* two different customers share a key and a segment with that key carries the second
C16_Witness ==
    /\ matches # None
    /\ Len(customerData) = 2
    /\ KeyOf(customerData[1].accountNumber) = KeyOf(customerData[2].accountNumber)
    /\ customerData[1].email # customerData[2].email
    /\ \E i \in DOMAIN matches[1] :
          matches[1][i].matched /\ matches[1][i].customer.email = customerData[2].email

-----------------------------------------------------------------------------
(* Row accounting of CSV ingestion (specification SpecMatch) *)

\* parseCSV has completed: it always leaves a customer or an error
CsvParsed == customerData # <<>> \/ parseErrors # <<>>

\* the entries of the error list that name data row i (line i + 1 of the file)
ErrorsOfRow(i) == {k \in DOMAIN parseErrors : parseErrors[k].row = i + 1}

\* every data row is either rejected by one entry naming it or accepted
RowsAccounted ==
    /\ \A i \in DOMAIN csvRows : Cardinality(ErrorsOfRow(i)) <= 1
    /\ Len(customerData) + Cardinality({i \in DOMAIN csvRows : ErrorsOfRow(i) # {}})
          = Len(csvRows)

RequiredColumnsFound ==
    /\ csvRows # <<>>
    /\ hasAccountNumber(DOMAIN csvRows[1])
    /\ hasEmail(DOMAIN csvRows[1])
    /\ hasCustomerName(DOMAIN csvRows[1])

-----------------------------------------------------------------------------
(* Dashboard.EmailDistributionTool: the five-step workflow.  The step        *)
(* content is mounted for the current step only; extractZipFiles and         *)
(* parseCSV are asynchronous, so their completion callbacks can arrive after *)
(* the user has moved on.  AccountMatchingComponent matches in an effect as  *)
(* soon as it is mounted with PDF files and customers.                       *)

steps == <<"upload-zip", "upload-csv", "match-data", "email-template", "send-emails">>

getCurrentStepIndex == CHOOSE i \in DOMAIN steps : steps[i] = currentStep

canProceedToStep(stepId) ==
    CASE stepId = "upload-csv" -> Len(pdfFiles) > 0
      [] stepId = "match-data" -> Len(pdfFiles) > 0 /\ Len(customerData) > 0
      [] stepId = "email-template" -> Len(matchedData) > 0
      [] stepId = "send-emails" -> Len(matchedData) > 0 /\ trim(emailTemplate) # <<>>
      [] OTHER -> TRUE

\* setCurrentStep(stepId) with the PDF files and customers of the same update: the
\* step content is mounted, and the effect of AccountMatchingComponent calls
\* performMatching and onMatchingComplete, which goes on to email-template
ShowStep(stepId, pdfs, customers) ==
    IF stepId = "match-data" /\ Len(pdfs) > 0 /\ Len(customers) > 0
    THEN /\ matchedData' = performMatching(pdfs, customers)
         /\ currentStep' = IF Len(performMatching(pdfs, customers)) > 0
                            THEN "email-template" ELSE stepId
    ELSE /\ currentStep' = stepId
         /\ UNCHANGED matchedData

\* what the workflow leaves alone
workflowFrame ==
    <<csvRows, parseErrors, matches, configOk, sendPc, sendIdx, inFlight, requests, results,
      emailResults, isSending, completeCalls, filenameVars, detectVars, genVars, testerVars,
      templateVars>>

\* onClick of a step card
StepCardClick ==
    /\ \E i \in DOMAIN steps :
          /\ canProceedToStep(steps[i])
          /\ ShowStep(steps[i], pdfFiles, customerData)
    /\ UNCHANGED <<pdfFiles, customerData, emailTemplate, extracting, parsing, workflowFrame>>

\* Next Step
NextStep ==
    /\ getCurrentStepIndex < Len(steps)
    /\ canProceedToStep(steps[getCurrentStepIndex + 1])
    /\ ShowStep(steps[getCurrentStepIndex + 1], pdfFiles, customerData)
    /\ UNCHANGED <<pdfFiles, customerData, emailTemplate, extracting, parsing, workflowFrame>>

\* Previous Step
PreviousStep ==
    /\ getCurrentStepIndex > 1
    /\ ShowStep(steps[getCurrentStepIndex - 1], pdfFiles, customerData)
    /\ UNCHANGED <<pdfFiles, customerData, emailTemplate, extracting, parsing, workflowFrame>>

\* Reset; calls of the child components that are pending stay pending
Reset ==
    /\ currentStep' = "upload-zip"
    /\ pdfFiles' = <<>>
    /\ customerData' = <<>>
    /\ matchedData' = <<>>
    /\ emailTemplate' = <<>>
    /\ UNCHANGED <<extracting, parsing, workflowFrame>>

\* the lists the child components hand over (never empty) and the saved templates
ExtractedInputs ==
    { <<[name |-> "f1", accountNumber |-> <<"A","1">>, customerName |-> <<"A","n","n">>]>>,
      <<[name |-> "f3", accountNumber |-> <<"B","2">>, customerName |-> <<"B","o">>],
        [name |-> "f4", accountNumber |-> <<"C","3">>, customerName |-> <<"C","y">>]>> }
ParsedInputs == { SendCustomers, <<SendCustomers[2]>> }
TemplateInputs == { <<"S","u","b","j","e","c","t",":"," ","s","\n","\n","b">> }

\* Extract Files in ZipUploadComponent
ExtractZipFiles ==
    /\ currentStep = "upload-zip"
    /\ ~extracting
    /\ extracting' = TRUE
    /\ UNCHANGED <<currentStep, pdfFiles, customerData, matchedData, emailTemplate, parsing,
                   workflowFrame>>

\* extractZipFiles completes: onFilesExtracted is called if a PDF was found
FilesExtracted ==
    /\ extracting
    /\ extracting' = FALSE
    /\ \/ \E files \in ExtractedInputs :
             /\ pdfFiles' = files
             /\ ShowStep("upload-csv", files, customerData)
       \/ UNCHANGED <<pdfFiles, currentStep, matchedData>>
    /\ UNCHANGED <<customerData, emailTemplate, parsing, workflowFrame>>

\* Parse CSV in CsvUploadComponent
StartParseCSV ==
    /\ currentStep = "upload-csv"
    /\ ~parsing
    /\ parsing' = TRUE
    /\ UNCHANGED <<currentStep, pdfFiles, customerData, matchedData, emailTemplate, extracting,
                   workflowFrame>>

\* parseCSV completes: onDataParsed is called if a customer was accepted
DataParsed ==
    /\ parsing
    /\ parsing' = FALSE
    /\ \/ \E data \in ParsedInputs :
             /\ customerData' = data
             /\ ShowStep("match-data", pdfFiles, data)
       \/ UNCHANGED <<customerData, currentStep, matchedData>>
    /\ UNCHANGED <<pdfFiles, emailTemplate, extracting, workflowFrame>>

\* Save Template in EmailTemplateComponent: onTemplateReady
TemplateReady ==
    /\ currentStep = "email-template"
    /\ \E template \in TemplateInputs :
          /\ emailTemplate' = template
          /\ currentStep' = IF trim(template) # <<>> THEN "send-emails" ELSE currentStep
    /\ UNCHANGED <<pdfFiles, customerData, matchedData, extracting, parsing, workflowFrame>>

InitWorkflow ==
    /\ FilenameIdle /\ MatchIdle /\ SendIdle /\ DetectIdle /\ ToolIdle

NextWorkflow ==
    \/ StepCardClick \/ NextStep \/ PreviousStep \/ Reset
    \/ ExtractZipFiles \/ FilesExtracted \/ StartParseCSV \/ DataParsed \/ TemplateReady

SpecWorkflow == InitWorkflow /\ [][NextWorkflow]_vars

\* C27: whenever the current step is send-emails, the matchedData handed to the
\* sending component is the reconciliation of the workflow's current pdfFiles and
\* current customerData.
C27_MatchesNeverStale ==
    currentStep = "send-emails" => matchedData = performMatching(pdfFiles, customerData)

\* C28: the entry guard of the current step holds in every reachable state.
C28_EntryGuardHolds ==
    /\ currentStep = "upload-csv" => pdfFiles # <<>>
    /\ currentStep = "match-data" => pdfFiles # <<>> /\ customerData # <<>>
    /\ currentStep = "email-template" => matchedData # <<>>
    /\ currentStep = "send-emails" =>
          /\ matchedData # <<>>
          /\ \E i \in DOMAIN emailTemplate : emailTemplate[i] \notin WhiteSpace

-----------------------------------------------------------------------------
(* templateDefaults.ensureDefaultTemplate, run at every application start,   *)
(* and the default template the Template Manager keeps in localStorage.      *)
(* A template is [subject, content, version]; the version of an object       *)
(* without that field is NoVersion.  updatedAt is left out.                  *)

MaxStarts == 4

NoVersion == ""
Versions == {"2.1", "2.2", "2.3"}

\* DEFAULT_EMAIL_TEMPLATE of a build
DEFAULT_EMAIL_TEMPLATE(version) ==
    [subject |-> "Your New Water Systems Statement", content |-> "Dear {{customerName}}",
     version |-> version]

ensureDefaultTemplate(item, version) ==
    IF item = None
    THEN Some(DEFAULT_EMAIL_TEMPLATE(version))
    ELSE IF item[1].version = NoVersion \/ item[1].version # version
    THEN Some(DEFAULT_EMAIL_TEMPLATE(version))
    ELSE item

\* the application is loaded: the effect of App calls ensureDefaultTemplate
AppStart ==
    /\ starts < MaxStarts
    /\ stored' = ensureDefaultTemplate(stored, shipped)
    /\ seenVersion' = shipped
    /\ starts' = starts + 1
    /\ UNCHANGED <<shipped, filenameVars, matchVars, sendVars, detectVars, genVars, testerVars,
                   workflowVars>>

\* the templates a user writes in the Template Manager
UserTemplates ==
    { [subject |-> "Your statement", content |-> "Hello {{customerName}}"],
      [subject |-> "Your New Water Systems Statement", content |-> "Dear {{customerName}}"] }

\* TemplateManager.saveDefaultTemplate (Save as Default)
SaveDefaultTemplate ==
    /\ starts > 0
    /\ \E t \in UserTemplates :
          stored' = Some([subject |-> t.subject, content |-> t.content, version |-> NoVersion])
    /\ UNCHANGED <<shipped, seenVersion, starts, filenameVars, matchVars, sendVars, detectVars,
                   genVars, testerVars, workflowVars>>

\* TemplateManager.loadDefaultTemplate on mount: without a stored default it stores
\* its own copy of the default, with version '2.1'
LoadDefaultTemplate ==
    /\ starts > 0
    /\ stored = None
    /\ stored' = Some(DEFAULT_EMAIL_TEMPLATE("2.1"))
    /\ UNCHANGED <<shipped, seenVersion, starts, filenameVars, matchVars, sendVars, detectVars,
                   genVars, testerVars, workflowVars>>

\* the user clears the site data of the browser
ClearStorage ==
    /\ stored # None
    /\ stored' = None
    /\ UNCHANGED <<shipped, seenVersion, starts, filenameVars, matchVars, sendVars, detectVars,
                   genVars, testerVars, workflowVars>>

\* a build with another version of the default template is deployed
Deploy ==
    /\ \E v \in Versions \ {shipped} : shipped' = v
    /\ UNCHANGED <<stored, seenVersion, starts, filenameVars, matchVars, sendVars, detectVars,
                   genVars, testerVars, workflowVars>>

InitTemplate ==
    /\ stored \in {None} \cup {Some(DEFAULT_EMAIL_TEMPLATE(v)) : v \in Versions \cup {"2.0"}}
    /\ shipped \in Versions
    /\ seenVersion = NoVersion
    /\ starts = 0
    /\ FilenameIdle /\ MatchIdle /\ SendIdle /\ DetectIdle /\ GenIdle /\ TesterIdle
    /\ WorkflowIdle

NextTemplate ==
    AppStart \/ SaveDefaultTemplate \/ LoadDefaultTemplate \/ ClearStorage \/ Deploy

SpecTemplate == InitTemplate /\ [][NextTemplate]_vars

\* C30: an application start replaces the stored default template only when none
\* is stored or when the shipped version is not the one of the previous start; a
\* default saved with Save as Default survives every start on which the shipped
\* version is unchanged.
C30_ReplacedOnlyWhenNeeded ==
    [][(starts' = starts + 1 /\ starts > 0 /\ stored' # stored) =>
          (stored = None \/ shipped # seenVersion)]_vars

====
